---- MODULE Spec2Model ----
(***************************************************************************)
(* A model of dtmm's field-transfer engine (dtmm/transfer.py), the layer   *)
(* data validation (dtmm/data.py), the projection matrices                 *)
(* (dtmm/diffract.py) and the 4x4 kernels (dtmm/linalg.py).                *)
(*                                                                         *)
(* Arrays of the multi-pass controller are symbolic terms: a term is a     *)
(* tuple whose head names the numpy/dtmm call that produced the array and  *)
(* whose tail holds the call's operands, so two arrays are equal exactly   *)
(* when the same calls were applied to the same operands in the same       *)
(* order.  The projection and normalization functions are modelled on      *)
(* exact rational arithmetic.                                              *)
(***************************************************************************)
EXTENDS Integers, Sequences, FiniteSets, TLC

VARIABLES
    call,         \* arguments of the transfer_field call
    pc,           \* position in _transfer_field
    exc,          \* exception that ended the call ("none" while running)
    field_in,     \* the caller's input field array
    field0,       \* copy of the input field taken on entry
    field,        \* working field
    field_out,    \* output field accumulator
    ref,          \* normalization reference field
    i0,           \* reference total intensity
    d,            \* validated layer thicknesses
    d_eff,        \* validated effective layer thicknesses
    indices,      \* layer traversal order of the current pass
    i,            \* pass index
    pindex,       \* position in indices
    interference, \* effective interference flag
    reflections,  \* effective reflections flag
    norm,         \* normalization mode string
    mode,         \* "t" or "None"
    input_layer,  \* input layer passed to the effective propagator
    log,          \* layer propagations executed so far
    backfield,    \* latest backward pass and the working field it left
    pin,          \* input of the pure function under check
    pout          \* result of the pure function under check

tvars == <<call, pc, exc, field_in, field0, field, field_out, ref, i0, d,
           d_eff, indices, i, pindex, interference, reflections, norm, mode,
           input_layer, log, backfield>>

vars == <<call, pc, exc, field_in, field0, field, field_out, ref, i0, d,
          d_eff, indices, i, pindex, interference, reflections, norm, mode,
          input_layer, log, backfield, pin, pout>>

----------------------------------------------------------------------------
(* Bounds *)

MaxPass == 3
MaxLayers == 2
MaxDims == 4
MaxIntensity == 3
MaxEntry == 2

----------------------------------------------------------------------------
(* Program constants *)

DTMM_NORM_FFT == 1
DTMM_NORM_REF == 2

None == <<"None">>

----------------------------------------------------------------------------
(* dtmm/data.py: validate_optical_data on array shapes.                    *)
(* An array is described by its shape; len(a) is shape[0] and raises       *)
(* TypeError for a 0-d array.                                              *)

Broadcast(shape, n, homogeneous) ==
    IF (Len(shape) = 1 /\ homogeneous) \/ (Len(shape) = 3 /\ ~homogeneous)
    THEN <<n>> \o shape
    ELSE shape

Rejected(e) ==
    [exc |-> e, thickness |-> <<>>, material |-> <<>>, angles |-> <<>>]

validate_optical_data(data, homogeneous) ==
    LET thickness == IF Len(data.thickness) = 0 THEN <<1>> ELSE data.thickness
        n == thickness[1]
        material == Broadcast(data.material, n, homogeneous)
        angles == Broadcast(data.angles, n, homogeneous)
    IN  IF Len(data.thickness) > 1 THEN Rejected("ValueError")
        ELSE IF Len(material) = 0 THEN Rejected("TypeError")
        ELSE IF material[1] # n THEN Rejected("ValueError")
        ELSE IF (Len(material) # 2 /\ homogeneous)
                \/ (Len(material) # 4 /\ ~homogeneous)
             THEN Rejected("ValueError")
        ELSE IF Len(angles) = 0 THEN Rejected("TypeError")
        ELSE IF angles[1] # n THEN Rejected("ValueError")
        ELSE IF (Len(angles) # 2 /\ homogeneous)
                \/ (Len(angles) # 4 /\ ~homogeneous)
             THEN Rejected("ValueError")
        ELSE IF material # angles THEN Rejected("ValueError")
        ELSE [exc |-> "none", thickness |-> thickness,
              material |-> material, angles |-> angles]


----------------------------------------------------------------------------
(* Exact rational scalars <<numerator, denominator>>, denominator > 0      *)

RECURSIVE Gcd(_, _)
Gcd(a, b) == IF b = 0 THEN a ELSE Gcd(b, a % b)

Abs(x) == IF x < 0 THEN -x ELSE x

Rat(a, b) ==
    LET s == IF b < 0 THEN -1 ELSE 1
        g == Gcd(Abs(a), Abs(b))
    IN  <<(s * a) \div g, (s * b) \div g>>

RMul(x, y) == Rat(x[1] * y[1], x[2] * y[2])
RDiv(x, y) == Rat(x[1] * y[2], x[2] * y[1])
RAdd(x, y) == Rat(x[1] * y[2] + y[1] * x[2], x[2] * y[2])
RNeg(x) == <<-x[1], x[2]>>
RSub(x, y) == RAdd(x, RNeg(y))
RLeq(x, y) == x[1] * y[2] <= y[1] * x[2]
RAbs(x) == <<Abs(x[1]), x[2]>>
RZero == <<0, 1>>
ROne == <<1, 1>>

\* x ** 0.5 for a rational whose numerator and denominator are squares
ISqrt(n) == CHOOSE r \in 0..n : r * r = n
RSqrt(x) == <<ISqrt(x[1]), ISqrt(x[2])>>

----------------------------------------------------------------------------
(* Field arrays of _transfer_field as terms                                *)

FieldEntry == <<"entry">>          \* the values the caller passed in
Zeros == <<"zeros">>

\* numpy: a[..., ::2, :, :] and a[..., 1::2, :, :] of a 4-component array
Pack(even, odd) == <<"pack", even, odd>>
Even(a) == IF a[1] = "pack" THEN a[2] ELSE <<"even", a>>
Odd(a) == IF a[1] = "pack" THEN a[3] ELSE <<"odd", a>>

\* np.multiply(a, c): c is a rational or a symbolic intensity ratio
Multiply(a, c) ==
    IF c = ROne THEN a
    ELSE IF a[1] = "pack" THEN Pack(<<"mul", c, a[2]>>, <<"mul", c, a[3]>>)
    ELSE <<"mul", c, a>>

\* np.add, np.subtract
Add(a, b) == IF a = Zeros THEN b ELSE IF b = Zeros THEN a ELSE <<"add", a, b>>
Subtract(a, b) == IF b = Zeros THEN a ELSE <<"sub", a, b>>

\* transfer.transmitted_field(field, ks, n, betamax, norm, ref)
Transmitted(a, n, nrm, rf) == <<"transmitted", n, nrm, rf, a>>

\* transfer.jones2H(jones, ks, n, betamax)
Jones2H(a, n) == <<"jones2H", n, a>>

\* transfer.total_intensity(field)
TotalIntensity(a) == <<"total_intensity", a>>

\* diffract.diffract(field, dmat)
Diffract(a, dmat) == <<"diffract", dmat, a>>

\* linalg Dotmdmf(f, p, fi, field): the exact local transfer of layer j
\* over the phase k*thickness/nsteps
Dotmdmf(a, j, thickness, nsteps) == <<"dotmdmf", j, thickness, nsteps, a>>

\* linalg.dotmm(a, b)
Dotmm(a, b) == <<"dotmm", a, b>>

----------------------------------------------------------------------------
(* transfer.py: the layer propagators                                      *)

corrected_diffraction_matrix(j, thickness_eff, nsteps) ==
    IF thickness_eff > 0
    THEN Dotmm(<<"dmat", j, thickness_eff, nsteps>>,
               <<"cmat", j, thickness_eff, nsteps>>)
    ELSE Dotmm(<<"cmat", j, thickness_eff, nsteps>>,
               <<"dmat", j, thickness_eff, nsteps>>)

corrected_jones_diffraction_matrix(j, thickness_eff, nsteps) ==
    IF thickness_eff > 0
    THEN Dotmm(<<"jdmat", j, thickness_eff, nsteps>>,
               <<"jcmat", j, thickness_eff, nsteps>>)
    ELSE Dotmm(<<"jcmat", j, thickness_eff, nsteps>>,
               <<"jdmat", j, thickness_eff, nsteps>>)

jones_transmission_matrix(layer_in, layer_out) == <<"jtmat", layer_in, layer_out>>

\* a reflection matrix that stays active after the sub-step that used it
rmat_kept(r) == r

\* line 603: rmat = None, once the reflection matrix has been composed
rmat_after_step(r) == None

\* a propagation that makes one local transfer whatever nsteps is
EffectiveSteps_once(s, nsteps, a, j, thickness, dmat0, rmat, m) ==
    Dotmdmf(a, j, thickness, nsteps)

\* the loop "for j in range(nsteps)" of propagate_field_effective, from
\* sub-step s on
RECURSIVE EffectiveSteps(_, _, _, _, _, _, _, _)
EffectiveSteps(s, nsteps, a, j, thickness, dmat0, rmat, m) ==
    IF s >= nsteps THEN a
    ELSE IF dmat0 # None \/ rmat # None
    THEN LET dmat == IF rmat # None
                     THEN IF dmat0 # None THEN Dotmm(dmat0, rmat) ELSE rmat
                     ELSE dmat0
             b == IF thickness > 0
                  THEN Dotmdmf(Diffract(a, dmat), j, thickness, nsteps)
                  ELSE Diffract(Dotmdmf(a, j, thickness, nsteps), dmat)
         IN  EffectiveSteps(s + 1, nsteps, b, j, thickness, dmat0,
                            IF rmat # None THEN rmat_after_step(rmat) ELSE rmat, m)
    ELSE EffectiveSteps(s + 1, nsteps, Dotmdmf(a, j, thickness, nsteps),
                        j, thickness, dmat0, rmat, m)

propagate_field_effective(a, j, thickness, thickness_eff, nsteps, diffr, m, in_layer) ==
    LET dmat0 == IF ~diffr THEN None
                 ELSE IF m = "t"
                      THEN corrected_jones_diffraction_matrix(j, thickness_eff, nsteps)
                      ELSE corrected_diffraction_matrix(j, thickness_eff, nsteps)
        rmat == IF m = "t" /\ in_layer # None
                THEN jones_transmission_matrix(in_layer, <<"eff", j>>)
                ELSE None
    IN  EffectiveSteps(0, nsteps, a, j, thickness, dmat0, rmat, m)

propagate_field_full(a, j, thickness, nsteps, m) ==
    <<"full", j, thickness, nsteps, m, a>>

transmit_jones(a, layer_in, layer_out) ==
    Diffract(a, jones_transmission_matrix(layer_in, layer_out))


----------------------------------------------------------------------------
(* Inputs of a transfer_field call                                         *)

RefInd == {1, 4}             \* refractive indices nin, nout
StepChoices == {1, 2}        \* nstep

RangeShort(n) == [k \in 1..(n - 1) |-> k - 1]          \* a range that skips the last layer
Range(n) == [k \in 1..n |-> k - 1]                     \* list(range(n))
ReverseNot(s) == s                                     \* a reverse() that is lost
Reverse(s) == [k \in 1..Len(s) |-> s[Len(s) + 1 - k]]  \* list.reverse()

\* thickness values of an n-layer stack
ThickSeqs(n) == { [k \in 1..n |-> k], [k \in 1..n |-> IF k = 1 THEN 0 ELSE 2] }

\* well-formed inhomogeneous optical data of n layers
GoodData(n) ==
    { [thickness |-> <<n>>, dvals |-> dv,
       material |-> <<n, 2, 2, 3>>, angles |-> <<n, 2, 2, 3>>] : dv \in ThickSeqs(n) }

\* optical data that validate_optical_data converts (0-d thickness, 3-d
\* material and angles) and optical data that it rejects
OtherData ==
    { [thickness |-> <<>>, dvals |-> <<2>>, material |-> <<2, 2, 3>>, angles |-> <<2, 2, 3>>],
      [thickness |-> <<2, 2>>, dvals |-> <<>>, material |-> <<2, 2, 2, 3>>, angles |-> <<2, 2, 2, 3>>],
      [thickness |-> <<2>>, dvals |-> <<1, 2>>, material |-> <<1, 2, 2, 3>>, angles |-> <<2, 2, 2, 3>>],
      [thickness |-> <<2>>, dvals |-> <<1, 2>>, material |-> <<2, 2, 2, 3>>, angles |-> <<1, 2, 2, 3>>],
      [thickness |-> <<2>>, dvals |-> <<1, 2>>, material |-> <<2, 3>>, angles |-> <<2, 3>>],
      [thickness |-> <<2>>, dvals |-> <<1, 2>>, material |-> <<2, 2, 2, 3>>, angles |-> <<2, 3>>],
      [thickness |-> <<2>>, dvals |-> <<1, 2>>, material |-> <<2, 2, 2, 3>>, angles |-> <<2, 2, 1, 3>>],
      [thickness |-> <<2>>, dvals |-> <<1, 2>>, material |-> <<>>, angles |-> <<2, 2, 2, 3>>],
      [thickness |-> <<2>>, dvals |-> <<1, 2>>, material |-> <<2, 2, 2, 3>>, angles |-> <<>>] }

OpticalDatas == (UNION { GoodData(n) : n \in 1..MaxLayers }) \cup OtherData

\* eff_data: None, homogeneous data of m layers, or 4-d (inhomogeneous) data
NoEffData == [thickness |-> <<>>, dvals |-> <<>>, material |-> <<>>, angles |-> <<>>, none |-> TRUE]
EffDatas ==
    {NoEffData}
    \cup { [thickness |-> <<m>>, dvals |-> [k \in 1..m |-> 1],
            material |-> <<m, 3>>, angles |-> <<m, 3>>, none |-> FALSE] : m \in 1..MaxLayers }
    \cup { [thickness |-> <<1>>, dvals |-> <<1>>,
            material |-> <<1, 2, 2, 3>>, angles |-> <<1, 2, 2, 3>>, none |-> FALSE] }

Calls ==
    [optical_data : OpticalDatas, eff_data : EffDatas, npass : 1..MaxPass,
     nstep : StepChoices, diffraction : BOOLEAN, reflections : BOOLEAN,
     interference : BOOLEAN, norm : 0..3, method : {"effective", "full"},
     nin : RefInd, nout : RefInd]

----------------------------------------------------------------------------
(* transfer.py: _transfer_field                                            *)

\* norm & DTMM_NORM_FFT, norm & DTMM_NORM_REF for norm in 0..3
BitAnd(x, flag) == IF (x \div flag) % 2 = 1 THEN flag ELSE 0

calc_reference == BitAnd(call.norm, DTMM_NORM_REF) # 0

NormString(x) ==
    IF BitAnd(x, DTMM_NORM_FFT) # 0 THEN "fft"
    ELSE IF BitAnd(x, DTMM_NORM_REF) # 0 THEN "local"
    ELSE "total"

\* a str compared with the integer the caller passed as norm
StrEqCallInt(s, k) == call.norm = k

\* Python: a str compared with an int by == is False
StrEqInt(s, k) == FALSE

\* _isotropic_effective_data: the mean over axes (0,1,2) keeps the last axis,
\* which np.broadcast_to(epseff, (n, 3)) accepts only when it is 1 or 3
isotropic_effective_data(dvals, valid) ==
    IF valid.material[4] \notin {1, 3}
    THEN Rejected("ValueError")
    ELSE validate_optical_data([thickness |-> valid.thickness,
                                material |-> <<valid.thickness[1], 3>>,
                                angles |-> <<valid.thickness[1], 3>>], TRUE)

Sign(k) == IF k % 2 = 0 THEN 1 ELSE -1      \* (-1)**k

\* interference_flag that keeps the caller's flag
interference_flag_kept(npass, intf) == intf

\* line 440: interference = True if npass > 1 else interference
interference_flag(npass, intf) == IF npass > 1 THEN TRUE ELSE intf

\* line 441: mode = "t" if interference == False else None
working_mode(intf) == IF intf = FALSE THEN "t" ELSE "None"

\* single_pass_output with jones2H taken in the input medium
single_pass_output_nin(f, m, refl, nin, nout) ==
    IF m = "t"
    THEN IF refl = FALSE
         THEN Multiply(Pack(f, Jones2H(f, nin)), RSqrt(Rat(nin, nout)))
         ELSE Pack(f, Jones2H(f, nin))
    ELSE f

\* single_pass_output with the inverse energy factor
single_pass_output_inv(f, m, refl, nin, nout) ==
    IF m = "t"
    THEN IF refl = FALSE
         THEN Multiply(Pack(f, Jones2H(f, nout)), RSqrt(Rat(nout, nin)))
         ELSE Pack(f, Jones2H(f, nout))
    ELSE f

\* lines 546-554: the output of a call with npass == 1
single_pass_output(f, m, refl, nin, nout) ==
    IF m = "t"
    THEN IF refl = FALSE
         THEN Multiply(Pack(f, Jones2H(f, nout)), RSqrt(Rat(nin, nout)))
         ELSE Pack(f, Jones2H(f, nout))
    ELSE f

\* field_in_after_pass without the restore of line 555
field_in_not_restored(npass, k, fin, f0, f, fact, fsub) ==
    IF npass > 1
    THEN IF k % 2 = 0 THEN fin
         ELSE IF k # npass - 1 THEN Add(Multiply(f, fact), fsub)
         ELSE f
    ELSE fin

\* lines 529-541 and 555: the caller's array at the end of pass k, where
\* fin is its current value, f the working field, fact the intensity ratio
\* and fsub the field re-derived as field0 - fact * transmitted part
field_in_after_pass(npass, k, fin, f0, f, fact, fsub) ==
    IF npass > 1
    THEN IF k % 2 = 0 THEN fin
         ELSE IF k # npass - 1 THEN Add(Multiply(f, fact), fsub)
         ELSE f
    ELSE f0

Init ==
    /\ call \in Calls
    /\ pc = "start"
    /\ exc = "none"
    /\ field_in = FieldEntry
    /\ field0 = None
    /\ field = None
    /\ field_out = None
    /\ ref = None
    /\ i0 = None
    /\ d = <<>>
    /\ d_eff = <<>>
    /\ indices = <<>>
    /\ i = 0
    /\ pindex = 0
    /\ interference = call.interference
    /\ reflections = call.reflections
    /\ norm = "int"
    /\ mode = "None"
    /\ input_layer = None
    /\ log = <<>>
    /\ backfield = [pass |-> -1, value |-> None]
    /\ pin = None
    /\ pout = None

\* lines 388-421: the norm string, validation of optical_data and eff_data
Validate ==
    /\ pc = "start"
    /\ LET v == validate_optical_data(call.optical_data, FALSE)
           dv == IF Len(call.optical_data.thickness) = 0
                 THEN <<call.optical_data.dvals[1]>>
                 ELSE call.optical_data.dvals
           e == IF v.exc # "none" THEN v
                ELSE IF call.eff_data.none THEN isotropic_effective_data(dv, v)
                ELSE validate_optical_data(call.eff_data, TRUE)
       IN  /\ norm' = NormString(call.norm)
           /\ IF v.exc # "none" \/ e.exc # "none"
              THEN /\ exc' = (IF v.exc # "none" THEN v.exc ELSE e.exc)
                   /\ pc' = "error"
                   /\ UNCHANGED <<d, d_eff>>
              ELSE /\ d' = dv
                   /\ d_eff' = (IF call.eff_data.none THEN dv ELSE call.eff_data.dvals)
                   /\ pc' = "setup"
                   /\ exc' = "none"
    /\ UNCHANGED <<call, field_in, field0, field, field_out, ref, i0, indices,
                   i, pindex, interference, reflections, mode, input_layer,
                   log, backfield, pin, pout>>

\* an input layer that depends on the reflections flag alone
entry_input_layer_reflections(intf, refl) ==
    IF refl = FALSE THEN None ELSE <<"nin">>

\* lines 460-466: the input layer of the first propagated layer
entry_input_layer(intf, refl) ==
    IF intf = TRUE \/ refl = FALSE THEN None ELSE <<"nin">>

\* lines 423-466: buffers, mode, first projection, reference, input layer
Setup ==
    /\ pc = "setup"
    /\ LET intf == interference_flag(call.npass, call.interference)
           m == working_mode(intf)
           f == IF m = "t" \/ (StrEqInt(norm, 2) /\ intf = TRUE)
                THEN Transmitted(field_in, call.nin, None, None)
                ELSE field_in
       IN  /\ field_out' = Zeros
           /\ field0' = field_in
           /\ field' = f
           /\ field_in' = Zeros
           /\ indices' = Range(Len(d))
           /\ interference' = intf
           /\ mode' = m
           /\ ref' = (IF calc_reference THEN f ELSE None)
           /\ i0' = TotalIntensity(Transmitted(field_in, call.nin, None, None))
           /\ input_layer' = entry_input_layer(intf, call.reflections)
           /\ reflections' = (IF intf = TRUE \/ call.reflections = FALSE
                              THEN FALSE ELSE call.reflections)
    /\ i' = 0
    /\ pc' = "pass"
    /\ UNCHANGED <<call, exc, d, d_eff, pindex, norm, log, backfield, pin, pout>>

\* lines 468-478: start of pass i
BeginPass ==
    /\ pc = "pass"
    /\ i < call.npass
    /\ field' = (IF mode = "t" THEN Even(field) ELSE field)
    /\ pindex' = 0
    /\ pc' = "layer"
    /\ UNCHANGED <<call, exc, field_in, field0, field_out, ref, i0, d, d_eff,
                   indices, i, interference, reflections, norm, mode,
                   input_layer, log, backfield, pin, pout>>

\* lines 480-505: one iteration of the loop over the layers
PropagateLayer ==
    /\ pc = "layer"
    /\ pindex < Len(indices)
    /\ LET j == indices[pindex + 1]
       IN  IF j + 1 > Len(d_eff)
           THEN /\ exc' = "IndexError"
                /\ pc' = "error"
                /\ UNCHANGED <<field, ref, input_layer, log, pindex>>
           ELSE LET thickness == d[j + 1] * Sign(i)
                    thickness_eff == d_eff[j + 1] * Sign(i)
                    ref2 == propagate_field_effective(Even(ref), j, thickness,
                                thickness_eff, call.nstep, call.diffraction,
                                "t", None)
                IN  /\ ref' = (IF calc_reference /\ i % 2 = 0 /\ interference = TRUE
                               THEN Pack(ref2, Jones2H(ref2, call.nout))
                               ELSE ref)
                    /\ field' = (IF call.method = "effective"
                                 THEN propagate_field_effective(field, j, thickness,
                                          thickness_eff, call.nstep, call.diffraction,
                                          mode, input_layer)
                                 ELSE propagate_field_full(field, j, thickness,
                                          call.nstep, mode))
                    /\ input_layer' = (IF input_layer # None THEN <<"eff", j>>
                                       ELSE input_layer)
                    /\ log' = Append(log, [pass |-> i, layer |-> j,
                                           thickness |-> thickness,
                                           thickness_eff |-> thickness_eff,
                                           input_layer |-> input_layer])
                    /\ pindex' = pindex + 1
                    /\ pc' = (IF pindex + 1 = Len(indices) THEN "endpass" ELSE "layer")
                    /\ exc' = "none"
    /\ UNCHANGED <<call, field_in, field0, field_out, i0, d, d_eff, indices, i,
                   interference, reflections, norm, mode, backfield, pin, pout>>

\* a forward pass that is projected on the final pass as well
forward_pass_field_always(f, last, n, nrm, rf) == Transmitted(f, n, nrm, rf)

\* lines 517-523: the field of a forward pass that is added to field_out
forward_pass_field(f, last, n, nrm, rf) ==
    IF ~last THEN Transmitted(f, n, nrm, rf) ELSE f

\* lines 507-555: end of pass i
EndPass ==
    /\ pc = "endpass"
    /\ LET j == indices[Len(indices)]
           f1 == IF input_layer # None
                 THEN transmit_jones(field, <<"eff", j>>, <<"nout">>)
                 ELSE field
           last == (i = call.npass - 1)
           \* even pass, npass > 1
           refE == IF ~last /\ calc_reference
                   THEN Multiply(ref, RSqrt(Rat(call.nin, call.nout)))
                   ELSE ref
           fE == forward_pass_field(f1, last, call.nout, norm, refE)
           outE == Add(field_out, fE)
           \* odd pass, npass > 1
           fT == Transmitted(f1, call.nin, None, None)
           fact == <<"div", i0, TotalIntensity(fT)>>
           fO == Subtract(field0, Multiply(fT, fact))
       IN  /\ indices' = Reverse(indices)
           /\ field_in' = field_in_after_pass(call.npass, i, field_in, field0, f1, fact, fO)
           /\ IF call.npass > 1
              THEN IF i % 2 = 0
                   THEN /\ ref' = refE
                        /\ field_out' = outE
                        /\ field' = outE
                        /\ UNCHANGED backfield
                   ELSE /\ backfield' = [pass |-> i, value |-> f1]
                        /\ IF ~last
                           THEN /\ field' = fO
                                /\ field_out' = Multiply(field_out, fact)
                                /\ ref' = (IF calc_reference THEN fO ELSE ref)
                           ELSE /\ field' = f1
                                /\ UNCHANGED <<field_out, ref>>
              ELSE /\ field' = f1
                   /\ field_out' = single_pass_output(f1, mode, reflections,
                                                      call.nin, call.nout)
                   /\ UNCHANGED <<ref, backfield>>
    /\ i' = i + 1
    /\ pc' = "pass"
    /\ UNCHANGED <<call, exc, field0, i0, d, d_eff, pindex, interference,
                   reflections, norm, mode, input_layer, log, pin, pout>>

\* line 558: return field_out, wavelengths, pixelsize
Return ==
    /\ pc = "pass"
    /\ i >= call.npass
    /\ pc' = "done"
    /\ UNCHANGED <<call, exc, field_in, field0, field, field_out, ref, i0, d,
                   d_eff, indices, i, pindex, interference, reflections, norm,
                   mode, input_layer, log, backfield, pin, pout>>

Next ==
    \/ Validate
    \/ Setup
    \/ BeginPass
    \/ PropagateLayer
    \/ EndPass
    \/ Return

Spec == Init /\ [][Next]_vars


----------------------------------------------------------------------------
(* Properties of _transfer_field, specification Spec                       *)

Running == pc \in {"pass", "layer", "endpass", "done"}
NLayers == Len(d)

\* the layer visited at position k (from 0) of a pass
ForwardOrder(k, n) == k
BackwardOrder(k, n) == n - 1 - k

(* C1: in pass i the layers are propagated with thickness d[j]*(-1)^i and
   effective thickness d_eff[j]*(-1)^i, in the order 0..n-1 when i is even
   and n-1..0 when i is odd; the k-th propagation of the call belongs to pass
   (k-1) div n. *)
C1_PassDirection ==
    \A k \in 1..Len(log) :
        LET r == log[k]
            pos == (k - 1) % NLayers
        IN  /\ r.pass = (k - 1) \div NLayers
            /\ r.pass < call.npass
            /\ IF r.pass % 2 = 0
               THEN /\ r.layer = ForwardOrder(pos, NLayers)
                    /\ r.thickness = d[r.layer + 1]
                    /\ r.thickness_eff = d_eff[r.layer + 1]
               ELSE /\ r.layer = BackwardOrder(pos, NLayers)
                    /\ r.thickness = -d[r.layer + 1]
                    /\ r.thickness_eff = -d_eff[r.layer + 1]

C1_Witness ==
    /\ pc = "done"
    /\ call.npass >= 3
    /\ NLayers >= 2
    /\ log[NLayers + 1].layer = NLayers - 1
    /\ log[NLayers + 1].thickness < 0
    /\ log[2 * NLayers + 1].layer = 0

\* steps left before the call returns or raises
Measure ==
    CASE pc = "start" -> 2 + (MaxPass + 1) * (MaxLayers + 4)
      [] pc = "setup" -> 1 + (call.npass + 1) * (NLayers + 2)
      [] pc = "pass" -> (call.npass - i) * (NLayers + 2) + 1
      [] pc = "layer" -> (call.npass - i) * (NLayers + 2) - pindex
      [] pc = "endpass" -> (call.npass - i) * (NLayers + 2) - NLayers
      [] OTHER -> 0

Visits(p, j) == { k \in 1..Len(log) : log[k].pass = p /\ log[k].layer = j }

\* a returned call has run npass passes over every layer once
Completed ==
    /\ i = call.npass
    /\ Len(log) = call.npass * NLayers
    /\ \A p \in 0..(call.npass - 1) : \A j \in 0..(NLayers - 1) :
           Cardinality(Visits(p, j)) = 1

(* C2: every step of a call brings the return nearer and leaves the call
   able to take its next step (no retry, no early exit, no convergence
   loop), and a call that returns has executed exactly npass passes, each of
   which propagated every one of the n layers exactly once: npass*n layer
   propagations in total. *)
C2_FixedPasses ==
    [][/\ Measure' < Measure
       /\ Measure' >= 0
       /\ pc' = "layer" => pindex' < Len(indices')
       /\ pc' = "pass" => i' <= call.npass
       /\ pc' = "done" => Completed']_vars

C2_Witness ==
    /\ pc = "done"
    /\ call.npass = MaxPass
    /\ NLayers = MaxLayers
    /\ Len(log) = MaxPass * MaxLayers

(* C3: once the mode is chosen, npass > 1 implies that interference is on and
   the mode is the 4-component mode None whatever the caller's interference
   argument; the mode is "t" exactly when the effective interference flag is
   false; the flag is the caller's when npass == 1. *)
C3_InterferenceForced ==
    (Running \/ exc = "IndexError") =>
        /\ call.npass > 1 => (interference = TRUE /\ mode = "None")
        /\ mode = "t" <=> interference = FALSE
        /\ mode \in {"t", "None"}
        /\ call.npass = 1 => interference = call.interference

C3_Witness ==
    /\ pc = "done"
    /\ call.npass > 1
    /\ call.interference = FALSE
    /\ interference = TRUE
    /\ mode = "None"


\* the factor (nin/nout)**0.5 applied to an array
EnergyFactor == RSqrt(Rat(call.nin, call.nout))
Scaled(a, c) == IF c = ROne THEN a ELSE <<"mul", c, a>>

\* the working field after the latest backward pass, rescaled as in 533-541
Reinjected(back) ==
    LET fT == Transmitted(back, call.nin, None, None)
        fact == <<"div", i0, TotalIntensity(fT)>>
    IN  <<"add", <<"mul", fact, back>>, <<"sub", FieldEntry, <<"mul", fact, fT>>>>>>

LastOddPass == IF call.npass % 2 = 0 THEN call.npass - 1 ELSE call.npass - 2

(* C6: when a call returns, the caller's input array holds the values it
   had on entry if npass == 1; if npass > 1 it has been overwritten: it holds
   the field left by the last backward pass (as such when that pass is the
   last pass, rescaled and completed with the entry field otherwise), not the
   entry values. *)
C6_InputArray ==
    pc = "done" =>
        /\ call.npass = 1 => field_in = FieldEntry
        /\ call.npass > 1 =>
              /\ field_in # FieldEntry
              /\ field_in # Zeros
              /\ backfield.pass = LastOddPass
              /\ field_in = IF call.npass % 2 = 0
                            THEN backfield.value
                            ELSE Reinjected(backfield.value)

C6_Witness ==
    /\ pc = "done"
    /\ call.npass = 1
    /\ field_in = FieldEntry
    /\ field_out # Zeros

\* the 2-component (even-slot) part of the single-pass field
SinglePassJones == IF mode = "t" THEN field ELSE Even(field)

(* C7 as claimed: with npass == 1, for every setting of the other arguments,
   no accumulation or re-injection happens, the output's even slots are the
   single-pass field and its odd slots are jones2H of that field (read with
   the energy factor of C8 allowed on both). *)
C7_AsClaimed ==
    (pc = "done" /\ call.npass = 1) =>
        LET c == IF call.reflections = FALSE THEN EnergyFactor ELSE ROne
        IN  /\ backfield.pass = -1
            /\ Even(field_out) = Scaled(SinglePassJones, c)
            /\ Odd(field_out) = Scaled(Jones2H(SinglePassJones, call.nout), c)

(* C7 amended: with npass == 1 no accumulation or re-injection step is
   executed (one pass over the layers, no backward pass, the input array
   restored).  When interference is off (mode "t") the output's even slots
   are the single-pass field and the odd slots jones2H of that field for the
   output medium, both multiplied by (nin/nout)**0.5 when reflections is
   false; when interference is on the output is the 4-component single-pass
   field itself. *)
C7_SinglePassSplit ==
    (pc = "done" /\ call.npass = 1) =>
        LET c == IF call.reflections = FALSE THEN EnergyFactor ELSE ROne
        IN  /\ backfield.pass = -1
            /\ Len(log) = NLayers
            /\ field_in = FieldEntry
            /\ call.interference = FALSE =>
                  /\ Even(field_out) = Scaled(field, c)
                  /\ Odd(field_out) = Scaled(Jones2H(field, call.nout), c)
            /\ call.interference = TRUE => field_out = field

C7_Witness ==
    /\ pc = "done"
    /\ call.npass = 1
    /\ call.interference = FALSE
    /\ call.reflections = TRUE
    /\ call.nin # call.nout
    /\ field_out = Pack(field, Jones2H(field, call.nout))

(* C8 as claimed: with npass == 1 and reflections false, for every value of
   the interference flag, the output is the single-pass output multiplied by
   (nin/nout)**0.5. *)
C8_AsClaimed ==
    (pc = "done" /\ call.npass = 1 /\ call.reflections = FALSE) =>
        field_out = Multiply(IF mode = "t"
                             THEN Pack(field, Jones2H(field, call.nout))
                             ELSE field,
                             EnergyFactor)

(* C8 amended: with npass == 1 and reflections false, the output is the
   single-pass output multiplied by exactly (nin/nout)**0.5 when the
   interference flag is false; when the interference flag is true the
   output is the single-pass field with no factor applied. *)
C8_EnergyFactor ==
    (pc = "done" /\ call.npass = 1 /\ call.reflections = FALSE) =>
        IF call.interference = FALSE
        THEN field_out = Pack(Scaled(field, EnergyFactor),
                              Scaled(Jones2H(field, call.nout), EnergyFactor))
        ELSE field_out = field

C8_Witness ==
    /\ pc = "done"
    /\ call.npass = 1
    /\ call.reflections = FALSE
    /\ call.interference = FALSE
    /\ call.nin = 4
    /\ call.nout = 1
    /\ Even(field_out) = <<"mul", <<2, 1>>, field>>

\* the malformations of optical data that C4 lists
Malformed(data) ==
    LET n == IF Len(data.thickness) = 0 THEN 1 ELSE data.thickness[1]
        WrongDims(shape) == Len(shape) \notin {3, 4}
        WrongLen(shape) == Len(shape) = 4 /\ shape[1] # n
    IN  \/ Len(data.thickness) > 1
        \/ WrongDims(data.material) \/ WrongDims(data.angles)
        \/ WrongLen(data.material) \/ WrongLen(data.angles)
        \/ Broadcast(data.material, n, FALSE) # Broadcast(data.angles, n, FALSE)

(* C4: a call with malformed optical_data ends with ValueError before any
   layer is propagated and before the caller's input array is modified. *)
C4_EagerValueError ==
    (Malformed(call.optical_data) /\ pc # "start") =>
        /\ pc = "error"
        /\ exc = "ValueError"
        /\ log = <<>>
        /\ field_in = FieldEntry

----------------------------------------------------------------------------
(* Calls of single functions.  The function's arguments are in pin, its    *)
(* result in pout; pc is "call" before and "returned" after the call.  The *)
(* variables of _transfer_field are not used.                              *)

ivars == <<call, exc, field_in, field0, field, field_out, ref, i0, d, d_eff,
           indices, i, pindex, interference, reflections, norm, mode,
           input_layer, log, backfield>>

Idle ==
    /\ call = None /\ exc = "none"
    /\ field_in = None /\ field0 = None /\ field = None /\ field_out = None
    /\ ref = None /\ i0 = None
    /\ d = <<>> /\ d_eff = <<>> /\ indices = <<>>
    /\ i = 0 /\ pindex = 0
    /\ interference = FALSE /\ reflections = FALSE
    /\ norm = "int" /\ mode = "None"
    /\ input_layer = None /\ log = <<>>
    /\ backfield = [pass |-> -1, value |-> None]

----------------------------------------------------------------------------
(* data.validate_optical_data called on arrays of every small shape        *)

DimChoices == {1, 3}

Shapes(k) == UNION {[1..m -> DimChoices] : m \in 0..k}

InitValidate ==
    /\ Idle
    /\ pc = "call"
    /\ pin \in [thickness : Shapes(2), material : Shapes(MaxDims),
                angles : Shapes(MaxDims), homogeneous : BOOLEAN]
    /\ pout = None

ValidateCall ==
    /\ pc = "call"
    /\ pout' = validate_optical_data(pin, pin.homogeneous)
    /\ pc' = "returned"
    /\ UNCHANGED <<pin, ivars>>

NextValidate == ValidateCall

SpecValidate == InitValidate /\ [][NextValidate]_vars

(* C5: every tuple validate_optical_data returns has a 1-D thickness of    *)
(* length n, material and angles of length n and of equal shape, material  *)
(* 2-D with last axis 3 when homogeneous and 4-D with last axis 3          *)
(* otherwise; every other input is rejected with ValueError.               *)
C5_ValidatedTuple ==
    pc = "returned" =>
        IF pout.exc = "none"
        THEN LET nd == IF pin.homogeneous THEN 2 ELSE 4
             IN  /\ Len(pout.thickness) = 1
                 /\ Len(pout.material) = nd
                 /\ pout.material[1] = pout.thickness[1]
                 /\ pout.angles[1] = pout.thickness[1]
                 /\ pout.material = pout.angles
                 /\ pout.material[nd] = 3
        ELSE pout.exc = "ValueError"

----------------------------------------------------------------------------
(* Field arrays with exact rational entries on a grid of two pixels:       *)
(* field[component][pixel], components (Ex, Hy, Ey, Hx); a matrix array    *)
(* is indexed [pixel][row][column].  Python index k is index k + 1 here.   *)

Pixels == 1..2
Comps == 1..4

\* an array held by its values
AsArray4(f) == <<f[1], f[2], f[3], f[4]>>
AsArray2(f) == <<f[1], f[2]>>

RSum4(a, b, c, e) == RAdd(RAdd(a, b), RAdd(c, e))

\* linalg._dotmd: a times diag(b)
_dotmd(a, b) == AsArray4([r \in Comps |-> AsArray4([c \in Comps |-> RMul(a[r][c], b[c])])])

\* linalg._dotmm: 4x4 matrix product
_dotmm(a, b) ==
    AsArray4([r \in Comps |-> AsArray4([c \in Comps |->
        RSum4(RMul(a[r][1], b[1][c]), RMul(a[r][2], b[2][c]),
              RMul(a[r][3], b[3][c]), RMul(a[r][4], b[4][c]))])])

\* linalg.dotmdm: a diag(d) b
dotmdm(a, dd, b) == _dotmm(_dotmd(a, dd), b)

\* linalg._dotmf: the matrix of each pixel applied to the field vector there
_dotmf(a, b) ==
    AsArray4([c \in Comps |-> AsArray2([px \in Pixels |->
        RSum4(RMul(a[px][c][1], b[1][px]), RMul(a[px][c][2], b[2][px]),
              RMul(a[px][c][3], b[3][px]), RMul(a[px][c][4], b[4][px]))])])

\* fft.fft2 and fft.ifft2 over the two pixels
fft2(x) ==
    AsArray4([c \in Comps |-> <<RAdd(x[c][1], x[c][2]), RSub(x[c][1], x[c][2])>>])

ifft2(x) ==
    AsArray4([c \in Comps |-> <<RMul(Rat(1, 2), RAdd(x[c][1], x[c][2])),
                       RMul(Rat(1, 2), RSub(x[c][1], x[c][2]))>>])

\* wave.betaphi: beta of each frequency bin; bin 1 is the zero frequency
betaphi(beta1) == <<0, beta1>>

\* tmm.alphaffi for the isotropic medium of index n: eigenvalues alpha
\* (forward modes in slots 0 and 2, backward in 1 and 3), eigenvector
\* matrix f and its inverse fi
alphaffi(beta, n) ==
    LET a == ISqrt(n * n - beta * beta)
        z == RZero
        o == ROne
        h == Rat(1, 2)
    IN  [alpha |-> <<Rat(a, 1), Rat(-a, 1), Rat(a, 1), Rat(-a, 1)>>,
         f |-> << <<o, o, z, z>>,
                  <<Rat(n * n, a), Rat(-(n * n), a), z, z>>,
                  <<z, z, o, o>>,
                  <<z, z, Rat(-a, 1), Rat(a, 1)>> >>,
         fi |-> << <<h, Rat(a, 2 * n * n), z, z>>,
                   <<h, Rat(-a, 2 * n * n), z, z>>,
                   <<z, z, h, Rat(-1, 2 * a)>>,
                   <<z, z, h, Rat(1, 2 * a)>> >>]

Zero4 == AsArray4([k \in Comps |-> RZero])
Zero44 == AsArray4([r \in Comps |-> Zero4])

\* beta >= betamax, betamax a float or np.inf
\* a cutoff that keeps the mode with beta equal to betamax
BetaGt(beta, betamax) == ~betamax.inf /\ beta > betamax.v

BetaGeq(beta, betamax) == ~betamax.inf /\ beta >= betamax.v

\* diffract.diffraction_alphaffi with a scalar betamax
diffraction_alphaffi(betas, n, betamax) ==
    AsArray2([px \in Pixels |->
        IF BetaGeq(betas[px], betamax)
        THEN [alpha |-> Zero4, f |-> Zero44, fi |-> Zero44]
        ELSE alphaffi(betas[px], n)])

\* tmm.phasem: exp(1j*kd*alpha)
phasem(alpha, kd) ==
    AsArray4([k \in Comps |-> IF kd = 0 THEN ROne ELSE <<"exp", kd, alpha[k]>>])

\* a phase matrix that ignores its mode
phase_matrix_unmasked(alpha, kd, m) == phasem(alpha, kd)

\* diffract.phase_matrix
phase_matrix(alpha, kd, m) ==
    LET out == phasem(alpha, kd)
    IN  AsArray4([k \in Comps |->
            IF m = "t" /\ k \in {2, 4} THEN RZero
            ELSE IF m = "r" /\ k \in {1, 3} THEN RZero
            ELSE out[k]])

\* diffract.projection_matrix
projection_matrix(betas, n, m, betamax) ==
    LET e == diffraction_alphaffi(betas, n, betamax)
    IN  AsArray2([px \in Pixels |->
            dotmdm(e[px].f, phase_matrix(e[px].alpha, 0, m), e[px].fi)])

\* diffract.diffract
diffract(fieldv, dmat) == ifft2(_dotmf(dmat, fft2(fieldv)))

\* field.field2intensity: Ex Hy - Ey Hx at each pixel
field2intensity(f) ==
    AsArray2([px \in Pixels |-> RSub(RMul(f[1][px], f[2][px]), RMul(f[3][px], f[4][px]))])

total_intensity(f) == RAdd(field2intensity(f)[1], field2intensity(f)[2])

\* the factor normalize_field_total multiplies the field by
total_fact(i1, i2) ==
    LET m == i2 = RZero
        i2m == IF m THEN ROne ELSE i2
        i1m == IF m THEN RZero ELSE i1
        fact == RDiv(i1m, i2m)
        lo == IF RLeq(fact, RNeg(ROne)) THEN RNeg(ROne) ELSE fact
        hi == IF RLeq(ROne, lo) THEN ROne ELSE lo
    IN  RAbs(hi)

normalize_field_total(f, i1, i2) ==
    AsArray4([c \in Comps |-> AsArray2([px \in Pixels |-> RMul(f[c][px], total_fact(i1, i2))])])

diffract_normalized_total(f, dmat, rf) ==
    LET i1 == IF rf # None THEN total_intensity(rf) ELSE total_intensity(f)
        out == ifft2(_dotmf(dmat, fft2(f)))
        i2 == total_intensity(out)
    IN  normalize_field_total(out, i1, i2)

\* the per-pixel factor of a field normalization without its clamp
field_fact_unclamped(intensity_in, intensity_out) ==
    AsArray2([px \in Pixels |->
        IF intensity_out[px] = RZero THEN RZero
        ELSE RDiv(intensity_in[px], intensity_out[px])])

\* the per-pixel factor normalize_field multiplies the field by
field_fact(intensity_in, intensity_out) ==
    AsArray2([px \in Pixels |->
        LET m == intensity_out[px] = RZero
            iout == IF m THEN ROne ELSE intensity_out[px]
            iin == IF m THEN RZero ELSE intensity_in[px]
            fact == RDiv(iin, iout)
            lo == IF RLeq(fact, RNeg(ROne)) THEN RNeg(ROne) ELSE fact
            hi == IF RLeq(ROne, lo) THEN ROne ELSE lo
        IN  RAbs(hi)])

normalize_field(f, intensity_in, intensity_out) ==
    LET fact == field_fact(intensity_in, intensity_out)
    IN  AsArray4([c \in Comps |-> AsArray2([px \in Pixels |-> RMul(f[c][px], fact[px])])])

\* transfer.diffract_normalized_fft: intensities are taken per frequency bin
diffract_normalized_fft(f, dmat, rf) ==
    LET f1 == fft2(f)
        intensity1 == IF rf # None THEN field2intensity(fft2(rf))
                      ELSE field2intensity(f1)
        f2 == _dotmf(dmat, f1)
        intensity2 == field2intensity(f2)
        f3 == normalize_field(f2, intensity1, intensity2)
    IN  ifft2(f3)

\* A complex array is <<"complex", re, im>> with re and im real arrays.
\* jones.polarizer(jonesvec((1, 1j))) and polarizer(jonesvec((1, -1j))):
\* the projectors on the two circular polarizations, entries <<re, im>>
lmat ==
    << << <<Rat(1, 2), RZero>>, <<RZero, Rat(-1, 2)>> >>,
       << <<RZero, Rat(1, 2)>>, <<Rat(1, 2), RZero>> >> >>

rmat ==
    << << <<Rat(1, 2), RZero>>, <<RZero, Rat(1, 2)>> >>,
       << <<RZero, Rat(-1, 2)>>, <<Rat(1, 2), RZero>> >> >>

\* jones.apply_jones_matrix on a real field: part 1 is the real and part 2
\* the imaginary part of the result
JonesPart(jmat, f, part) ==
    AsArray4([c \in Comps |-> AsArray2([px \in Pixels |->
        CASE c = 1 -> RAdd(RMul(f[1][px], jmat[1][1][part]),
                           RMul(f[3][px], jmat[1][2][part]))
          [] c = 2 -> RSub(RMul(f[2][px], jmat[1][1][part]),
                           RMul(f[4][px], jmat[1][2][part]))
          [] c = 3 -> RAdd(RMul(f[1][px], jmat[2][1][part]),
                           RMul(f[3][px], jmat[2][2][part]))
          [] c = 4 -> RSub(RMul(f[4][px], jmat[2][2][part]),
                           RMul(f[2][px], jmat[2][1][part]))])])

apply_jones_matrix(jmat, f) ==
    <<"complex", JonesPart(jmat, f, 1), JonesPart(jmat, f, 2)>>

\* field.field2intensity of a complex field: Re(Ex Hy* - Ey Hx*)
complex_intensity(cf) ==
    AsArray2([px \in Pixels |->
        RAdd(field2intensity(cf[2])[px], field2intensity(cf[3])[px])])

\* transfer.diffract_normalized_local
diffract_normalized_local(f, dmat, rf) ==
    LET src == IF rf # None THEN rf ELSE f
        intensity1l == complex_intensity(apply_jones_matrix(lmat, src))
        intensity1r == complex_intensity(apply_jones_matrix(rmat, src))
        out == ifft2(_dotmf(dmat, fft2(f)))
        outl == apply_jones_matrix(lmat, out)
        outr == apply_jones_matrix(rmat, out)
        intensity2l == complex_intensity(outl)
        intensity2r == complex_intensity(outr)
        nl == <<normalize_field(outl[2], intensity1l, intensity2l),
                normalize_field(outl[3], intensity1l, intensity2l)>>
        nr == <<normalize_field(outr[2], intensity1r, intensity2r),
                normalize_field(outr[3], intensity1r, intensity2r)>>
    IN  <<"complex",
          AsArray4([c \in Comps |-> AsArray2([px \in Pixels |-> RAdd(nl[1][c][px], nr[1][c][px])])]),
          AsArray4([c \in Comps |-> AsArray2([px \in Pixels |-> RAdd(nl[2][c][px], nr[2][c][px])])])>>

\* a raised exception in place of a returned value
Raise(e) == <<"raise", e>>

_projected_field(f, betas, m, n, betamax, nrm, rf) ==
    LET pmat == projection_matrix(betas, n, m, betamax)
    IN  CASE nrm = "None" -> diffract(f, pmat)
          [] nrm = "fft" -> diffract_normalized_fft(f, pmat, rf)
          [] nrm = "local" -> diffract_normalized_local(f, pmat, rf)
          [] nrm = "total" -> diffract_normalized_total(f, pmat, rf)
          [] OTHER -> Raise("ValueError")

_projected_field2(f, betas, m, n, betamax, nrm) ==
    LET pmat == projection_matrix(betas, n, m, betamax)
    IN  IF nrm = "None" THEN diffract(f, pmat)
        ELSE diffract_normalized_local(f, pmat, None)

transmitted_field(f, betas, n, betamax, nrm, rf) ==
    _projected_field(f, betas, "t", n, betamax, nrm, rf)

reflected_field(f, betas, n, betamax, nrm) ==
    _projected_field2(f, betas, "r", n, betamax, nrm)

----------------------------------------------------------------------------
(* transmitted_field and reflected_field called on one field               *)

\* <<n, beta>>: medium index and beta of the second frequency bin, with
\* n^2 - beta^2 a non-zero square
Waves ==
    {w \in {1, 5, 13} \X {0, 3, 4, 5, 12} :
        /\ w[2] < w[1]
        /\ \E a \in 1..w[1] : a * a + w[2] * w[2] = w[1] * w[1]}

Infinity == [inf |-> TRUE, v |-> 0]

BetaMaxs == {Infinity} \cup {[inf |-> FALSE, v |-> b] : b \in {4, 12}}

PixelVecs ==
    {<<1, 5, 0, 0>>, <<1, -5, 0, 0>>, <<0, 0, 1, 2>>, <<2, 1, 1, 0>>,
     <<0, 0, 0, 0>>}

FieldOf(v1, v2) == AsArray4([c \in Comps |-> <<Rat(v1[c], 1), Rat(v2[c], 1)>>])

Fields == {FieldOf(v1, v2) : v1 \in PixelVecs, v2 \in PixelVecs}

ZeroField == AsArray4([c \in Comps |-> <<RZero, RZero>>])

FieldAdd(x, y) ==
    AsArray4([c \in Comps |-> AsArray2([px \in Pixels |-> RAdd(x[c][px], y[c][px])])])

InitProj ==
    /\ Idle
    /\ pc = "call"
    /\ pin \in [wave : Waves, betamax : BetaMaxs, field : Fields]
    /\ pout = [t |-> None, r |-> None]

TransmittedCall ==
    /\ pc = "call"
    /\ pout' = [pout EXCEPT !.t = transmitted_field(pin.field,
                    betaphi(pin.wave[2]), pin.wave[1], pin.betamax,
                    "None", None)]
    /\ pc' = "transmitted"
    /\ UNCHANGED <<pin, ivars>>

ReflectedCall ==
    /\ pc = "transmitted"
    /\ pout' = [pout EXCEPT !.r = reflected_field(pin.field,
                    betaphi(pin.wave[2]), pin.wave[1], pin.betamax, "None")]
    /\ pc' = "returned"
    /\ UNCHANGED <<pin, ivars>>

NextProj == TransmittedCall \/ ReflectedCall

SpecProj == InitProj /\ [][NextProj]_vars

\* the frequency bins the cutoff discards
Discarded(px) == BetaGeq(betaphi(pin.wave[2])[px], pin.betamax)

\* the zero-distance phase diagonal of bin px under a mode
PhaseDiagonal(px, m) ==
    phase_matrix(diffraction_alphaffi(betaphi(pin.wave[2]), pin.wave[1],
                                      pin.betamax)[px].alpha, 0, m)

(* C9: with betamax infinite and no normalization the transmitted and the  *)
(* reflected projection of a field add up to the field; the "t" phase      *)
(* diagonal is one on the even mode slots and zero on the odd ones, the    *)
(* "r" diagonal the reverse; with a finite betamax every frequency bin     *)
(* with beta >= betamax is zero in both projections.                       *)
C9_Complementary ==
    pc = "returned" =>
        /\ pin.betamax.inf => FieldAdd(pout.t, pout.r) = pin.field
        /\ \A px \in Pixels : \A k \in Comps :
              /\ PhaseDiagonal(px, "t")[k]
                     = (IF k \in {1, 3} THEN ROne ELSE RZero)
              /\ PhaseDiagonal(px, "r")[k]
                     = (IF k \in {2, 4} THEN ROne ELSE RZero)
        /\ \A px \in Pixels : \A c \in Comps :
              Discarded(px) => /\ fft2(pout.t)[c][px] = RZero
                               /\ fft2(pout.r)[c][px] = RZero

C9_Witness ==
    /\ pc = "returned"
    /\ pin.betamax.inf
    /\ pin.wave[2] > 0
    /\ pout.t # ZeroField
    /\ pout.r # ZeroField
    /\ pout.t # pin.field

----------------------------------------------------------------------------
(* transmitted_field called with norm = "total" and a reference field      *)

RefFields == {FieldOf(v1, v2) : v1 \in PixelVecs, v2 \in {<<1, 5, 0, 0>>, <<0, 0, 1, 2>>}}

InitNorm ==
    /\ Idle
    /\ pc = "call"
    /\ pin \in [wave : Waves, betamax : BetaMaxs, field : Fields,
                ref : RefFields]
    /\ pout = None

TotalCall ==
    /\ pc = "call"
    /\ pout' = transmitted_field(pin.field, betaphi(pin.wave[2]),
                                 pin.wave[1], pin.betamax, "total", pin.ref)
    /\ pc' = "returned"
    /\ UNCHANGED <<pin, ivars>>

NextNorm == TotalCall

SpecNorm == InitNorm /\ [][NextNorm]_vars

\* the projected field before normalization
Projected ==
    diffract(pin.field, projection_matrix(betaphi(pin.wave[2]), pin.wave[1],
                                          "t", pin.betamax))

(* C10: with norm "total" and a reference field supplied, the total        *)
(* intensity of the returned field equals the total intensity of the       *)
(* reference whenever the projected intensity is not zero.                 *)
C10_ReferenceIntensity ==
    pc = "returned" /\ total_intensity(Projected) # RZero
        => total_intensity(pout) = total_intensity(pin.ref)

----------------------------------------------------------------------------
(* normalize_field and normalize_field_total called on given intensities   *)

IntensityVals ==
    {Rat(a, b) : a \in (-MaxIntensity)..MaxIntensity, b \in {1, 2}}

InitFact ==
    /\ Idle
    /\ pc = "call"
    /\ pin \in [fn : {"normalize_field"},
                field : {FieldOf(<<1, 5, 0, 0>>, <<2, 1, 1, 0>>)},
                i1 : IntensityVals \X IntensityVals,
                i2 : IntensityVals \X IntensityVals]
           \cup [fn : {"normalize_field_total"},
                 field : {FieldOf(<<1, 5, 0, 0>>, <<2, 1, 1, 0>>)},
                 i1 : IntensityVals, i2 : IntensityVals]
    /\ pout = None

NormalizeFieldCall ==
    /\ pc = "call"
    /\ pin.fn = "normalize_field"
    /\ pout' = [fact |-> field_fact(pin.i1, pin.i2),
                field |-> normalize_field(pin.field, pin.i1, pin.i2)]
    /\ pc' = "returned"
    /\ UNCHANGED <<pin, ivars>>

NormalizeTotalCall ==
    /\ pc = "call"
    /\ pin.fn = "normalize_field_total"
    /\ pout' = [fact |-> total_fact(pin.i1, pin.i2),
                field |-> normalize_field_total(pin.field, pin.i1, pin.i2)]
    /\ pc' = "returned"
    /\ UNCHANGED <<pin, ivars>>

NextFact == NormalizeFieldCall \/ NormalizeTotalCall

SpecFact == InitFact /\ [][NextFact]_vars

\* min(1, |num/den|) for den # 0, and 0 for den = 0
ClampedRatio(num, den) ==
    IF den = RZero THEN RZero
    ELSE IF RLeq(ROne, RAbs(RDiv(num, den))) THEN ROne
    ELSE RAbs(RDiv(num, den))

UnitInterval(x) == x[2] > 0 /\ RLeq(RZero, x) /\ RLeq(x, ROne)

(* C11: the factor a normalization multiplies into the field is a real     *)
(* number in [0, 1]: min(1, |numerator/denominator|) where the denominator *)
(* intensity is not zero and 0 where it is zero; the field returned is the *)
(* field times that factor, and no division by zero occurs.                *)
C11_ClampedFactor ==
    pc = "returned" =>
        IF pin.fn = "normalize_field"
        THEN \A px \in Pixels :
                /\ UnitInterval(pout.fact[px])
                /\ pout.fact[px] = ClampedRatio(pin.i1[px], pin.i2[px])
                /\ \A c \in Comps :
                      pout.field[c][px] = RMul(pin.field[c][px], pout.fact[px])
        ELSE /\ UnitInterval(pout.fact)
             /\ pout.fact = ClampedRatio(pin.i1, pin.i2)
             /\ \A c \in Comps : \A px \in Pixels :
                   pout.field[c][px] = RMul(pin.field[c][px], pout.fact)

C11_Witness ==
    /\ pc = "returned"
    /\ pin.fn = "normalize_field"
    /\ pin.i2[1] = RZero /\ pin.i1[1] # RZero /\ pout.fact[1] = RZero
    /\ RLeq(pin.i2[2], RNeg(ROne)) /\ pin.i1[2] = Rat(3, 1)
    /\ pout.fact[2] = ROne

----------------------------------------------------------------------------
(* transmitted_field and reflected_field called with every norm argument   *)

KnownNorms == {"None", "fft", "local", "total"}

NormArgs == KnownNorms \cup {"bogus", "FFT"}

\* the numerical calls _projected_field has made when it returns or raises
_projected_field_work(nrm) ==
    <<"projection_matrix">>
        \o (CASE nrm = "None" -> <<"diffract">>
              [] nrm = "fft" -> <<"diffract_normalized_fft">>
              [] nrm = "local" -> <<"diffract_normalized_local">>
              [] nrm = "total" -> <<"diffract_normalized_total">>
              [] OTHER -> <<>>)

\* the numerical calls _projected_field2 has made when it returns
_projected_field2_work(nrm) ==
    <<"projection_matrix">>
        \o (IF nrm = "None" THEN <<"diffract">>
            ELSE <<"diffract_normalized_local">>)

ArgWaves == {w \in Waves : w[1] <= 5}

ArgFields ==
    {FieldOf(<<1, 5, 0, 0>>, <<2, 1, 1, 0>>), FieldOf(<<1, -5, 0, 0>>, <<0, 0, 1, 2>>),
     FieldOf(<<0, 0, 0, 0>>, <<0, 0, 0, 0>>)}

InitArg ==
    /\ Idle
    /\ pc = "call"
    /\ pin \in [fn : {"transmitted_field", "reflected_field"},
                norm : NormArgs, wave : ArgWaves, betamax : BetaMaxs,
                field : ArgFields,
                ref : {None, FieldOf(<<1, 5, 0, 0>>, <<0, 0, 1, 2>>)}]
    /\ pout = None

TransmittedNormCall ==
    /\ pc = "call"
    /\ pin.fn = "transmitted_field"
    /\ pout' = [value |-> transmitted_field(pin.field, betaphi(pin.wave[2]),
                              pin.wave[1], pin.betamax, pin.norm, pin.ref),
                work |-> _projected_field_work(pin.norm)]
    /\ pc' = "returned"
    /\ UNCHANGED <<pin, ivars>>

ReflectedNormCall ==
    /\ pc = "call"
    /\ pin.fn = "reflected_field"
    /\ pout' = [value |-> reflected_field(pin.field, betaphi(pin.wave[2]),
                              pin.wave[1], pin.betamax, pin.norm),
                work |-> _projected_field2_work(pin.norm)]
    /\ pc' = "returned"
    /\ UNCHANGED <<pin, ivars>>

NextArg == TransmittedNormCall \/ ReflectedNormCall

SpecArg == InitArg /\ [][NextArg]_vars

(* C12: transmitted_field or reflected_field called with a normalization   *)
(* string other than None, "fft", "local", "total" raises ValueError       *)
(* before any numerical work, and returns no field.                        *)
C12_UnknownNormRejected ==
    pc = "returned" /\ pin.norm \notin KnownNorms =>
        /\ pout.value = Raise("ValueError")
        /\ pout.work = <<>>

----------------------------------------------------------------------------
(* linalg._inv4x4 and inv4x4 on matrices with integer entries; the entries *)
(* of the result are exact rationals or NaN                                *)

NaN == <<0, 0>>

\* float multiplication with NaN propagation
FMul(x, y) == IF x = NaN \/ y = NaN THEN NaN ELSE RMul(x, y)

\* dst as _inv4x4 has filled it before the determinant is computed
cofactors(src) ==
    LET t0 == src[3][3] * src[4][4]
        t1 == src[4][3] * src[3][4]
        t2 == src[2][3] * src[4][4]
        t3 == src[4][3] * src[2][4]
        t4 == src[2][3] * src[3][4]
        t5 == src[3][3] * src[2][4]
        t6 == src[1][3] * src[4][4]
        t7 == src[4][3] * src[1][4]
        t8 == src[1][3] * src[3][4]
        t9 == src[3][3] * src[1][4]
        t10 == src[1][3] * src[2][4]
        t11 == src[2][3] * src[1][4]
        c00 == t0 * src[2][2] + t3 * src[3][2] + t4 * src[4][2] - t1 * src[2][2] - t2 * src[3][2] - t5 * src[4][2]
        c01 == t1 * src[1][2] + t6 * src[3][2] + t9 * src[4][2] - t0 * src[1][2] - t7 * src[3][2] - t8 * src[4][2]
        c02 == t2 * src[1][2] + t7 * src[2][2] + t10 * src[4][2] - t3 * src[1][2] - t6 * src[2][2] - t11 * src[4][2]
        c03 == t5 * src[1][2] + t8 * src[2][2] + t11 * src[3][2] - t4 * src[1][2] - t9 * src[2][2] - t10 * src[3][2]
        c10 == t1 * src[2][1] + t2 * src[3][1] + t5 * src[4][1] - t0 * src[2][1] - t3 * src[3][1] - t4 * src[4][1]
        c11 == t0 * src[1][1] + t7 * src[3][1] + t8 * src[4][1] - t1 * src[1][1] - t6 * src[3][1] - t9 * src[4][1]
        c12 == t3 * src[1][1] + t6 * src[2][1] + t11 * src[4][1] - t2 * src[1][1] - t7 * src[2][1] - t10 * src[4][1]
        c13 == t4 * src[1][1] + t9 * src[2][1] + t10 * src[3][1] - t5 * src[1][1] - t8 * src[2][1] - t11 * src[3][1]
        u0 == src[3][1] * src[4][2]
        u1 == src[4][1] * src[3][2]
        u2 == src[2][1] * src[4][2]
        u3 == src[4][1] * src[2][2]
        u4 == src[2][1] * src[3][2]
        u5 == src[3][1] * src[2][2]
        u6 == src[1][1] * src[4][2]
        u7 == src[4][1] * src[1][2]
        u8 == src[1][1] * src[3][2]
        u9 == src[3][1] * src[1][2]
        u10 == src[1][1] * src[2][2]
        u11 == src[2][1] * src[1][2]
        c20 == u0 * src[2][4] + u3 * src[3][4] + u4 * src[4][4] - (u1 * src[2][4] + u2 * src[3][4] + u5 * src[4][4])
        c21 == u1 * src[1][4] + u6 * src[3][4] + u9 * src[4][4] - (u0 * src[1][4] + u7 * src[3][4] + u8 * src[4][4])
        c22 == u2 * src[1][4] + u7 * src[2][4] + u10 * src[4][4] - (u3 * src[1][4] + u6 * src[2][4] + u11 * src[4][4])
        c23 == u5 * src[1][4] + u8 * src[2][4] + u11 * src[3][4] - (u4 * src[1][4] + u9 * src[2][4] + u10 * src[3][4])
        c30 == u2 * src[3][3] + u5 * src[4][3] + u1 * src[2][3] - (u4 * src[4][3] + u0 * src[2][3] + u3 * src[3][3])
        c31 == u8 * src[4][3] + u0 * src[1][3] + u7 * src[3][3] - (u6 * src[3][3] + u9 * src[4][3] + u1 * src[1][3])
        c32 == u6 * src[2][3] + u11 * src[4][3] + u3 * src[1][3] - (u10 * src[4][3] + u2 * src[1][3] + u7 * src[2][3])
        c33 == u10 * src[3][3] + u4 * src[1][3] + u9 * src[2][3] - (u8 * src[2][3] + u11 * src[3][3] + u5 * src[1][3])
    IN  << <<c00, c01, c02, c03>>, <<c10, c11, c12, c13>>,
           <<c20, c21, c22, c23>>, <<c30, c31, c32, c33>> >>

\* a determinant that pairs row 0 of src with row 0 of dst
det_row0(src, dst) ==
    src[1][1] * dst[1][1] + src[1][2] * dst[1][2]
        + src[1][3] * dst[1][3] + src[1][4] * dst[1][4]

\* det as _inv4x4 computes it from column 0 of src
det_col0(src, dst) ==
    src[1][1] * dst[1][1] + src[2][1] * dst[1][2]
        + src[3][1] * dst[1][3] + src[4][1] * dst[1][4]

\* a singular matrix answered with zeros
det_factor_zero(det) == IF det = 0 THEN RZero ELSE Rat(1, det)

\* the factor _inv4x4 multiplies dst by
det_factor(det) == IF det = 0 THEN NaN ELSE Rat(1, det)

_inv4x4(src) ==
    LET dst == cofactors(src)
        det == det_factor(det_col0(src, dst))
    IN  AsArray4([r \in Comps |-> AsArray4([c \in Comps |->
            FMul(Rat(dst[r][c], 1), det)])])

\* the gufunc loop of inv4x4 over the matrices of a batch
inv4x4(mat) == [k \in DOMAIN mat |-> _inv4x4(mat[k])]

DenseMatrix ==
    << <<2, 1, 3, 1>>, <<1, 3, 1, 2>>, <<2, 1, 2, 1>>, <<1, 2, 3, 4>> >>

IdentityMatrix ==
    << <<1, 0, 0, 0>>, <<0, 1, 0, 0>>, <<0, 0, 1, 0>>, <<0, 0, 0, 1>> >>

\* the third row is the sum of the first two
SingularMatrix ==
    << <<1, 2, 0, 1>>, <<0, 1, 1, 2>>, <<1, 3, 1, 3>>, <<2, 0, 1, 1>> >>

Perturbed(m, r, c, a) == [m EXCEPT ![r][c] = @ + a]

Matrices ==
    {Perturbed(Perturbed(m, r1, c1, a1), r2, c2, a2) :
        m \in {DenseMatrix, IdentityMatrix, SingularMatrix},
        r1 \in Comps, c1 \in Comps, r2 \in Comps, c2 \in Comps,
        a1 \in 0..MaxEntry, a2 \in {0, -1}}

InitInv ==
    /\ Idle
    /\ pc = "call"
    /\ pin \in {<<m1, m2>> : m1 \in Matrices,
                             m2 \in {DenseMatrix, SingularMatrix}}
    /\ pout = None

Inv4x4Call ==
    /\ pc = "call"
    /\ pout' = inv4x4(pin)
    /\ pc' = "returned"
    /\ UNCHANGED <<pin, ivars>>

NextInv == Inv4x4Call

SpecInv == InitInv /\ [][NextInv]_vars

\* the determinant as the sum over the permutations of the columns
Inversions(p) ==
    Cardinality({pr \in Comps \X Comps : pr[1] < pr[2] /\ p[pr[1]] > p[pr[2]]})

RECURSIVE SumOver(_, _)
SumOver(S, m) ==
    IF S = {} THEN 0
    ELSE LET p == CHOOSE q \in S : TRUE
         IN  (IF Inversions(p) % 2 = 0 THEN 1 ELSE -1)
                 * m[1][p[1]] * m[2][p[2]] * m[3][p[3]] * m[4][p[4]]
             + SumOver(S \ {p}, m)

Determinant(m) == SumOver(Permutations(Comps), m)

\* entry (r, c) of a times b, a with integer and with rational entries
IntProduct(a, b, r, c) ==
    a[r][1] * b[1][c] + a[r][2] * b[2][c] + a[r][3] * b[3][c] + a[r][4] * b[4][c]

RatProduct(a, b, r, c) ==
    RSum4(RMul(a[r][1], Rat(b[1][c], 1)), RMul(a[r][2], Rat(b[2][c], 1)),
          RMul(a[r][3], Rat(b[3][c], 1)), RMul(a[r][4], Rat(b[4][c], 1)))

Kronecker(r, c) == IF r = c THEN 1 ELSE 0

IsInverseOf(x, m) ==
    \A r \in Comps : \A c \in Comps :
        RatProduct(x, m, r, c) = Rat(Kronecker(r, c), 1)

(* C13: inv4x4 of a matrix whose determinant is zero raises nothing and    *)
(* returns NaN in all 16 entries; the other matrix of the batch is         *)
(* inverted as if it were alone.                                           *)
C13_SingularAllNaN ==
    pc = "returned" =>
        \A k \in DOMAIN pin :
            IF Determinant(pin[k]) = 0
            THEN \A r \in Comps : \A c \in Comps : pout[k][r][c] = NaN
            ELSE /\ \A r \in Comps : \A c \in Comps : pout[k][r][c] # NaN
                 /\ IsInverseOf(pout[k], pin[k])

C13_Witness ==
    /\ pc = "returned"
    /\ Determinant(pin[1]) = 0
    /\ Determinant(pin[2]) # 0
    /\ pin[1] # SingularMatrix
    /\ pout[1][4][4] = NaN
    /\ pout[2][1][1] # NaN

(* C14: the 16 cofactor expressions of _inv4x4 form the adjugate A of M    *)
(* with A * M = det(M) * I, the value det computed from column 0 is        *)
(* det(M), and for det(M) # 0 the result times M is the identity.          *)
C14_TrueInverse ==
    pc = "returned" =>
        \A k \in DOMAIN pin :
            LET m == pin[k]
                adj == cofactors(m)
                det == det_col0(m, adj)
            IN  /\ det = Determinant(m)
                /\ \A r \in Comps : \A c \in Comps :
                      IntProduct(adj, m, r, c) = det * Kronecker(r, c)
                /\ det # 0 => IsInverseOf(pout[k], m)

C14_Witness ==
    /\ pc = "returned"
    /\ Determinant(pin[1]) \notin {0, 1, -1}
    /\ \A r \in Comps : \A c \in Comps : pin[1][r][c] # 0
    /\ IsInverseOf(pout[1], pin[1])

----------------------------------------------------------------------------
(* The gufunc wrappers of linalg called on arrays whose matrix dimension   *)
(* is n and whose loop dimensions are m and k                              *)

Kernels ==
    {"inv4x4", "dotmm", "dotmd", "dotmdm", "dotmv", "dotmf", "dotm1f",
     "transmit"}

\* the wrappers whose body starts with assert <array>.shape[0] >= 4
asserts_shape(op) ==
    op \in {"inv4x4", "dotmm", "dotmd", "dotmdm", "dotmv", "dotmf", "dotm1f"}

\* What a call can do.  A compiled kernel indexes rows and columns 0..3
\* without bounds checks: on smaller arrays it reads and writes outside
\* them, which yields a result of unspecified values or kills the process.
kernel_outcomes(op, n) ==
    IF asserts_shape(op)
    THEN IF n >= 4 THEN {[exc |-> "none", result |-> "computed"]}
         ELSE {[exc |-> "AssertionError", result |-> "None"]}
    ELSE IF n >= 4 THEN {[exc |-> "none", result |-> "computed"]}
         ELSE {[exc |-> "none", result |-> "unspecified"],
               [exc |-> "crash", result |-> "None"]}

InitKernel ==
    /\ Idle
    /\ pc = "call"
    /\ pin \in [op : Kernels, n : 1..(MaxDims + 2), m : 1..3, k : 1..3]
    /\ pout = None

KernelCall ==
    /\ pc = "call"
    /\ pout' \in kernel_outcomes(pin.op, pin.n)
    /\ pc' = "returned"
    /\ UNCHANGED <<pin, ivars>>

NextKernel == KernelCall

SpecKernel == InitKernel /\ [][NextKernel]_vars

(* C15: every linalg operation checks that the matrix dimension is at      *)
(* least 4 and, when it is smaller, fails with the shape error of that     *)
(* check (an assertion failure) without producing a result.                *)
C15_ShapeChecked ==
    pc = "returned" /\ pin.n < 4 =>
        /\ pout.exc = "AssertionError"
        /\ pout.result = "None"

-----------------------------------------------------------------------------
(* The memoized matrix builders and the operations that use their results. *)
(* Arrays are objects on a heap: an object has an identity (its address)   *)
(* and a value; the cache maps a key (builder name, arguments) to the      *)
(* identity of the array that was computed for it.  The arguments are      *)
(* reduced to the slab thickness d, the one that selects a code path.      *)
(* An address names the allocation: the field buffer of the caller, the    *)
(* n-th temporary of a call, or the array allocated by the n-th run of a   *)
(* builder body for a key.                                                 *)

Thicknesses == {-1, 1}

Builders ==
    {"diffraction_alphaffi", "diffraction_matrix", "projection_matrix",
     "jones_transmission_matrix", "correction_matrix",
     "corrected_diffraction_matrix", "jones_diffraction_alphajji",
     "jones_diffraction_matrix", "jones_correction_matrix",
     "corrected_jones_diffraction_matrix"}

\* builders whose key holds no thickness are called with d = 1 throughout
takes_thickness(fn) ==
    fn \in {"diffraction_matrix", "correction_matrix",
            "corrected_diffraction_matrix", "jones_diffraction_matrix",
            "jones_correction_matrix", "corrected_jones_diffraction_matrix"}

Keys == {k \in Builders \X Thicknesses : takes_thickness(k[1]) \/ k[2] = 1}

FieldBuffer == <<"field", 0, 0>>

Temporaries == {<<"tmp", 0, n>> : n \in 1..6}

\* numpy allocates a new array for a temporary: the first free one
alloc(st, value) ==
    LET a == CHOOSE x \in Temporaries :
                 /\ x \notin DOMAIN st.heap
                 /\ \A y \in Temporaries : y[3] < x[3] => y \in DOMAIN st.heap
    IN  [st EXCEPT !.heap = st.heap @@ (a :> value), !.ret = a]

\* numpy allocates the array that the body of builder key returns
alloc_result(st, key, value) ==
    LET a == <<key[1], key[2], st.computed[key]>>
    IN  [st EXCEPT !.heap = st.heap @@ (a :> value), !.ret = a]

\* an array operation with out = target: the target's value is replaced
write(st, target, value) ==
    [st EXCEPT !.heap = [st.heap EXCEPT ![target] = value], !.ret = target]

\* a wrapper that computes on every call and keeps nothing
RECURSIVE builder_body(_, _)
cached_function_forgetful(st, key) ==
    LET s1 == builder_body(st, key)
    IN  [s1 EXCEPT !.computed = [s1.computed EXCEPT ![key] = @ + 1]]

\* conf.cached_function: the decorator of every builder.  A key that is in
\* the cache returns the cached array; otherwise the body runs once and its
\* result is stored.  Nothing is ever evicted.
RECURSIVE cached_function(_, _)
cached_function(st, key) ==
    IF key \in DOMAIN st.cache
    THEN [st EXCEPT !.ret = st.cache[key]]
    ELSE LET s1 == builder_body(st, key)
         IN  [s1 EXCEPT !.cache = s1.cache @@ (key :> s1.ret),
                        !.computed = [s1.computed EXCEPT ![key] = @ + 1]]

\* diffraction_alphaffi zeroes the modes beyond betamax in the arrays it has
\* just computed, before they are returned
masked_in_place(value) == <<"masked", value>>

\* a product taken in the other order
dotmm_fresh_swapped(st, key, a, b) ==
    alloc_result(st, key, Dotmm(st.heap[b], st.heap[a]))

\* dotmm(a, b, out = None) at the end of a builder body: the product is
\* a new array
dotmm_fresh(st, key, a, b) ==
    alloc_result(st, key, Dotmm(st.heap[a], st.heap[b]))

\* a composition that multiplies in place: dotmm(dmat0, rmat, out = dmat0)
dotmm_into_first(st, a, b) == write(st, a, Dotmm(st.heap[a], st.heap[b]))

\* dmat = dotmm(dmat0, rmat): the product is a new temporary
dotmm_temporary(st, a, b) == alloc(st, Dotmm(st.heap[a], st.heap[b]))

\* the bodies of the builders; each reads the arrays returned by the
\* builders it calls and returns a newly allocated array
builder_body(st, key) ==
    LET fn == key[1]
        thickness == key[2]
    IN  CASE fn = "diffraction_alphaffi" ->
                alloc_result(st, key, masked_in_place(<<"alphaffi", thickness>>))
          [] fn = "diffraction_matrix" ->
                LET s1 == cached_function(st, <<"diffraction_alphaffi", 1>>)
                IN  alloc_result(s1, key, <<"dotmdm", s1.heap[s1.ret], <<"phase_matrix", thickness, "b">>>>)
          [] fn = "projection_matrix" ->
                LET s1 == cached_function(st, <<"diffraction_alphaffi", 1>>)
                IN  alloc_result(s1, key, <<"dotmdm", s1.heap[s1.ret], <<"phase_matrix", 0, "t">>>>)
          [] fn = "jones_transmission_matrix" ->
                LET s1 == cached_function(st, <<"diffraction_alphaffi", 1>>)
                    s2 == cached_function(s1, <<"diffraction_alphaffi", 1>>)
                IN  alloc_result(s2, key, <<"transmission_mat", s2.heap[s1.ret], s2.heap[s2.ret]>>)
          [] fn = "correction_matrix" ->
                alloc_result(st, key, <<"dotmdm", <<"alphaffi_xy">>, <<"phase_matrix", -thickness, "b">>>>)
          [] fn = "corrected_diffraction_matrix" ->
                LET s1 == cached_function(st, <<"diffraction_matrix", thickness>>)
                    s2 == cached_function(s1, <<"correction_matrix", thickness>>)
                    dmat == s1.ret
                    cmat == s2.ret
                IN  IF thickness > 0
                    THEN dotmm_fresh(s2, key, dmat, cmat)
                    ELSE dotmm_fresh(s2, key, cmat, dmat)
          [] fn = "jones_diffraction_alphajji" ->
                alloc_result(st, key, masked_in_place(<<"alphajji", thickness>>))
          [] fn = "jones_diffraction_matrix" ->
                LET s1 == cached_function(st, <<"jones_diffraction_alphajji", 1>>)
                IN  alloc_result(s1, key, <<"dotmdm", s1.heap[s1.ret], <<"phase_matrix", thickness, "t">>>>)
          [] fn = "jones_correction_matrix" ->
                alloc_result(st, key, <<"dotmdm", <<"alphajji_xy">>, <<"phase_matrix", -thickness, "t">>>>)
          [] fn = "corrected_jones_diffraction_matrix" ->
                LET s1 == cached_function(st, <<"jones_diffraction_matrix", thickness>>)
                    s2 == cached_function(s1, <<"jones_correction_matrix", thickness>>)
                    dmat == s1.ret
                    cmat == s2.ret
                IN  IF thickness > 0
                    THEN dotmm_fresh(s2, key, dmat, cmat)
                    ELSE dotmm_fresh(s2, key, cmat, dmat)

\* diffract.diffract(fieldv, dmat, out = out) on the heap.  fft2 writes into out or a new array f, dotmf writes
\* into f, ifft2 writes into out or a new array.
diffract_out(st, fieldv, dmat, out) ==
    LET s1 == IF out # None
              THEN write(st, out, <<"fft2", "field">>)
              ELSE alloc(st, <<"fft2", "field">>)
        f == s1.ret
        s2 == write(s1, f, <<"dotmf", s1.heap[dmat], "field">>)
    IN  IF out # None
        THEN write(s2, out, Diffract("field", s2.heap[dmat]))
        ELSE alloc(s2, Diffract("field", s2.heap[dmat]))

\* linalg.dotmdmf(f, p, fi, field, out = out): f, p and fi are arrays of
\* the call, never cached ones
dotmdmf_out(st, fieldv, out) ==
    IF out # None
    THEN write(st, out, <<"dotmdmf", "field">>)
    ELSE alloc(st, <<"dotmdmf", "field">>)

\* the loop of propagate_field_effective on the heap, from sub-step s on;
\* dmat0 and rmat0 (rmat) are addresses or None
RECURSIVE effective_steps_out(_, _, _, _, _, _, _, _)
effective_steps_out(st, s, nsteps, thickness, dmat0, rmat0, fieldv, out) ==
    IF s >= nsteps THEN [st EXCEPT !.ret = out]
    ELSE IF dmat0 # None \/ rmat0 # None
    THEN LET s1 == IF rmat0 # None
                   THEN IF dmat0 # None THEN dotmm_temporary(st, dmat0, rmat0)
                        ELSE [st EXCEPT !.ret = rmat0]
                   ELSE [st EXCEPT !.ret = dmat0]
             dmat == s1.ret
             s2 == IF thickness > 0
                   THEN LET t1 == diffract_out(s1, fieldv, dmat, out)
                        IN  dotmdmf_out(t1, t1.ret, t1.ret)
                   ELSE LET t1 == dotmdmf_out(s1, fieldv, fieldv)
                        IN  diffract_out(t1, t1.ret, dmat, t1.ret)
         IN  effective_steps_out(s2, s + 1, nsteps, thickness, dmat0, None, s2.ret, s2.ret)
    ELSE LET s2 == dotmdmf_out(st, fieldv, out)
         IN  effective_steps_out(s2, s + 1, nsteps, thickness, dmat0, rmat0, s2.ret, s2.ret)

\* propagate_field_effective on the heap: the builders are called first
propagate_field_effective_out(st, thickness, nsteps, diffr, m, has_input, fieldv, out) ==
    LET s1 == IF ~diffr THEN st
              ELSE IF m = "t"
                   THEN cached_function(st, <<"corrected_jones_diffraction_matrix", thickness>>)
                   ELSE cached_function(st, <<"corrected_diffraction_matrix", thickness>>)
        dmat0 == IF diffr THEN s1.ret ELSE None
        s2 == IF m = "t" /\ has_input
              THEN cached_function(s1, <<"jones_transmission_matrix", 1>>)
              ELSE s1
        rmat0 == IF m = "t" /\ has_input THEN s2.ret ELSE None
    IN  effective_steps_out(s2, 0, nsteps, thickness, dmat0, rmat0, fieldv, out)

\* transfer.transmit_jones: diffract(field, dmat, out = field)
transmit_jones_out(st, fieldv) ==
    LET s1 == cached_function(st, <<"jones_transmission_matrix", 1>>)
    IN  diffract_out(s1, fieldv, s1.ret, fieldv)

\* transfer.transmitted_field with norm = None: projection_matrix, then
\* diffract(field, pmat, out = out)
transmitted_field_out(st, fieldv, out) ==
    LET s1 == cached_function(st, <<"projection_matrix", 1>>)
    IN  diffract_out(s1, fieldv, s1.ret, out)

\* arrays that nothing refers to any more are freed when a call returns:
\* the cache and the caller's field buffer keep theirs
collect(st) ==
    LET live == {st.field} \cup {st.cache[k] : k \in DOMAIN st.cache}
    IN  [st EXCEPT !.heap = [a \in live |-> st.heap[a]]]

\* the builders that are called from outside diffract.py and transfer.py
EntryKeys ==
    {k \in Keys : k[1] \in {"diffraction_matrix", "projection_matrix",
                            "corrected_diffraction_matrix"}}

InitCache ==
    /\ Idle
    /\ pc = "call"
    /\ pin = [op |-> "none", key |-> <<"none", 0>>, hit |-> FALSE,
              other |-> FALSE]
    /\ pout = [cache |-> <<>>, heap |-> (FieldBuffer :> <<"field">>),
               computed |-> [k \in Keys |-> 0], ret |-> FieldBuffer,
               field |-> FieldBuffer]

Called(op, key) ==
    [op |-> op, key |-> key, hit |-> key \in DOMAIN pout.cache,
     other |-> pin.key # key /\ pin.op # "none"]

BuilderCall ==
    /\ \E key \in EntryKeys :
          /\ pout' = collect(cached_function(pout, key))
          /\ pin' = Called("builder", key)
    /\ pc' = "returned"
    /\ UNCHANGED ivars

PropagateEffectiveCall ==
    /\ \E thickness \in Thicknesses, nsteps \in StepChoices,
          diffr \in BOOLEAN, m \in {"t", "b"}, has_input \in BOOLEAN :
          /\ pout' = collect(propagate_field_effective_out(pout, thickness,
                         nsteps, diffr, m, has_input, pout.field, pout.field))
          /\ pin' = Called("propagate_field_effective",
                        <<IF m = "t" THEN "corrected_jones_diffraction_matrix"
                          ELSE "corrected_diffraction_matrix", thickness>>)
    /\ pc' = "returned"
    /\ UNCHANGED ivars

TransmitJonesCall ==
    /\ pout' = collect(transmit_jones_out(pout, pout.field))
    /\ pin' = Called("transmit_jones", <<"jones_transmission_matrix", 1>>)
    /\ pc' = "returned"
    /\ UNCHANGED ivars

ProjectCall ==
    /\ \E out \in {None, pout.field} :
          pout' = collect(transmitted_field_out(pout, pout.field, out))
    /\ pin' = Called("transmitted_field", <<"projection_matrix", 1>>)
    /\ pc' = "returned"
    /\ UNCHANGED ivars

NextCache ==
    \/ BuilderCall
    \/ PropagateEffectiveCall
    \/ TransmitJonesCall
    \/ ProjectCall

SpecCache == InitCache /\ [][NextCache]_vars

\* the builders of a corrected matrix with the builders of its two factors
Corrected ==
    {<<"corrected_diffraction_matrix", "diffraction_matrix", "correction_matrix">>,
     <<"corrected_jones_diffraction_matrix", "jones_diffraction_matrix",
       "jones_correction_matrix">>}

\* the value of the array cached for builder fn and thickness
Cached(fn, thickness) == pout.heap[pout.cache[<<fn, thickness>>]]

(* C19: a corrected diffraction matrix is diffraction matrix times         *)
(* correction matrix for a positive thickness and correction matrix times  *)
(* diffraction matrix for a negative one, for the 4x4 and the Jones        *)
(* builder.                                                                *)
C19_ProductOrder ==
    \A c \in Corrected, thickness \in Thicknesses :
        <<c[1], thickness>> \in DOMAIN pout.cache =>
            /\ thickness > 0 =>
                  Cached(c[1], thickness) =
                      Dotmm(Cached(c[2], thickness), Cached(c[3], thickness))
            /\ thickness < 0 =>
                  Cached(c[1], thickness) =
                      Dotmm(Cached(c[3], thickness), Cached(c[2], thickness))

C19_Witness ==
    /\ \A c \in Corrected, thickness \in {-1, 1} :
          <<c[1], thickness>> \in DOMAIN pout.cache
    /\ Cached("corrected_diffraction_matrix", 1)
          # Cached("corrected_diffraction_matrix", -1)
    /\ Cached("diffraction_matrix", 1) # Cached("correction_matrix", 1)

(* C16: a memoized builder called with a key it has seen returns the very  *)
(* array it returned before, whatever other keys were requested in         *)
(* between, and the body of the builder runs at most once per key.         *)
C16_SameObjectOnce ==
    /\ [](\A k \in Keys : pout.computed[k] <= 1)
    /\ [](pin.op = "builder" =>
             /\ pin.key \in DOMAIN pout.cache
             /\ pout.ret = pout.cache[pin.key])
    /\ [][\A k \in DOMAIN pout.cache :
             /\ k \in DOMAIN pout'.cache
             /\ pout'.cache[k] = pout.cache[k]
             /\ pout'.computed[k] = pout.computed[k]]_vars

C16_Witness ==
    /\ pin.op = "builder"
    /\ pin.hit
    /\ pin.other
    /\ pout.ret = pout.cache[pin.key]
    /\ pout.computed[pin.key] = 1

(* C17: no operation of a transfer changes the value of an array that is   *)
(* in the cache: diffract, the composition of the reflection matrix and    *)
(* the projections write into field buffers and new arrays only.           *)
C17_CachedNeverWritten ==
    [][\A k \in DOMAIN pout.cache :
          pout'.heap[pout.cache[k]] = pout.heap[pout.cache[k]]]_vars

C17_Witness ==
    /\ pin.op = "propagate_field_effective"
    /\ pin.key[1] = "corrected_jones_diffraction_matrix"
    /\ pin.hit
    /\ <<"jones_transmission_matrix", 1>> \in DOMAIN pout.cache
    /\ pout.heap[pout.field][1] = "dotmdmf"

-----------------------------------------------------------------------------
(* transfer.py: transfer_field, the ray-by-ray branch of split = True.     *)
(* Each ray is one run of _transfer_field on field_in[i] with beta[i] and  *)
(* phi[i]; the run is followed here by the run that the split = False      *)
(* branch makes for the same single ray, so that the two outputs can be    *)
(* compared.                                                               *)

\* field_in[i] together with beta[i] and phi[i]
Ray(k) == <<"ray", k>>

SplitCalls ==
    {c \in Calls :
        /\ c.optical_data \in GoodData(MaxLayers)
        /\ c.eff_data = NoEffData
        /\ c.npass <= 2
        /\ c.norm \in {0, 1}
        /\ c.nin = 1 /\ c.nout = 1}

\* lines 356-360: every argument of the caller is passed on
forward_single(c) == c

\* a ray-by-ray branch that passes method on as well
forward_split_all(c) == c

\* lines 374-377: method is not passed on, _transfer_field takes its
\* default "effective"
forward_split(c) == [c EXCEPT !.method = "effective"]

\* the state of _transfer_field when it is entered with arguments c on ray k
Enter(c, k) ==
    /\ call' = c
    /\ pc' = "start"
    /\ exc' = "none"
    /\ field_in' = Ray(k)
    /\ field0' = None /\ field' = None /\ field_out' = None
    /\ ref' = None /\ i0' = None
    /\ d' = <<>> /\ d_eff' = <<>> /\ indices' = <<>>
    /\ i' = 0 /\ pindex' = 0
    /\ interference' = c.interference
    /\ reflections' = c.reflections
    /\ norm' = "int" /\ mode' = "None"
    /\ input_layer' = None /\ log' = <<>>
    /\ backfield' = [pass |-> -1, value |-> None]

InitSplit ==
    /\ Idle
    /\ pc = "split"
    /\ pin \in [call : SplitCalls, nrays : 1..2]
    /\ pout = [ray |-> 0, phase |-> "split", order |-> <<>>,
               field_out |-> <<>>, single |-> <<>>]

\* lines 367-377: the next ray of the loop
SplitRay ==
    /\ pc = "split" /\ pout.phase = "split"
    /\ pout.ray < pin.nrays
    /\ Enter(forward_split(pin.call), pout.ray)
    /\ pout' = [pout EXCEPT !.phase = "split_running",
                            !.order = Append(@, pout.ray)]
    /\ UNCHANGED pin

\* line 372: out = field_out[i] has received the output of the ray
SplitRayReturn ==
    /\ pc = "done" /\ pout.phase = "split_running"
    /\ pout' = [pout EXCEPT !.phase = "single",
                            !.field_out = Append(@, field_out)]
    /\ pc' = "split"
    /\ UNCHANGED <<pin, ivars>>

\* lines 356-360: the same ray transferred by the split = False branch
SingleRay ==
    /\ pc = "split" /\ pout.phase = "single"
    /\ Enter(forward_single(pin.call), pout.ray)
    /\ pout' = [pout EXCEPT !.phase = "single_running"]
    /\ UNCHANGED pin

SingleRayReturn ==
    /\ pc = "done" /\ pout.phase = "single_running"
    /\ pout' = [pout EXCEPT !.phase = "split", !.ray = @ + 1,
                            !.single = Append(@, field_out)]
    /\ pc' = "split"
    /\ UNCHANGED <<pin, ivars>>

NextSplit ==
    \/ SplitRay
    \/ SplitRayReturn
    \/ SingleRay
    \/ SingleRayReturn
    \/ Validate
    \/ Setup
    \/ BeginPass
    \/ PropagateLayer
    \/ EndPass
    \/ Return

SpecSplit == InitSplit /\ [][NextSplit]_vars

(* C18: with split = True the rays are processed in index order and the    *)
(* output of ray i is the output of a transfer of that single ray with     *)
(* every other argument of the caller, method included, unchanged.         *)
C18_SplitEqualsSingle ==
    /\ \A k \in 1..Len(pout.order) : pout.order[k] = k - 1
    /\ \A k \in 1..Len(pout.single) : pout.field_out[k] = pout.single[k]

-----------------------------------------------------------------------------
(* transfer.py: propagate_field_effective called on one layer with every   *)
(* combination of thickness sign, number of sub-steps, diffraction flag,   *)
(* mode and input layer                                                    *)

SubSteps == 1..3

InitEff ==
    /\ Idle
    /\ pc = "call"
    /\ pin \in [thickness : {-2, 0, 2}, thickness_eff : {-1, 0, 1},
                nsteps : SubSteps, diffraction : BOOLEAN,
                mode : {"t", "None"}, input_layer : {None, <<"eff", 0>>}]
    /\ pout = None

PropagateCall ==
    /\ pc = "call"
    /\ pout' = propagate_field_effective(FieldEntry, 1, pin.thickness,
                   pin.thickness_eff, pin.nsteps, pin.diffraction, pin.mode,
                   pin.input_layer)
    /\ pc' = "returned"
    /\ UNCHANGED <<pin, ivars>>

NextEff == PropagateCall

SpecEff == InitEff /\ [][NextEff]_vars

\* the operations that were applied to the field, first to last
RECURSIVE Applied(_)
Applied(a) ==
    IF a = FieldEntry THEN <<>>
    ELSE IF a[1] = "dotmdmf" THEN Append(Applied(a[5]), "transfer")
    ELSE IF a[1] = "diffract" THEN Append(Applied(a[3]), "diffract")
    ELSE <<"other">>

\* a matrix is active in sub-step s: the diffraction matrix in every
\* sub-step, the reflection matrix of the input layer in the first
ActiveIn(s) ==
    \/ pin.diffraction
    \/ s = 0 /\ pin.mode = "t" /\ pin.input_layer # None

\* the operations the sub-steps s, s + 1, ... are to apply for a thickness
\* that is not zero
RECURSIVE Expected(_)
Expected(s) ==
    IF s >= pin.nsteps THEN <<>>
    ELSE (IF ~ActiveIn(s) THEN <<"transfer">>
          ELSE IF pin.thickness > 0 THEN <<"diffract", "transfer">>
          ELSE <<"transfer", "diffract">>) \o Expected(s + 1)

Transfers(ops) == Cardinality({k \in DOMAIN ops : ops[k] = "transfer"})

(* C20: propagate_field_effective makes exactly nsteps sub-steps, one      *)
(* exact local transfer each; a sub-step with an active diffraction or     *)
(* reflection matrix diffracts before the transfer for a positive          *)
(* thickness and after it for a negative one, and a sub-step without one   *)
(* only transfers.                                                         *)
C20_SubSteps ==
    pc = "returned" =>
        /\ Transfers(Applied(pout)) = pin.nsteps
        /\ pin.thickness # 0 => Applied(pout) = Expected(0)

C20_Witness ==
    /\ pc = "returned"
    /\ pin.nsteps = 3
    /\ pin.thickness < 0
    /\ ~pin.diffraction /\ pin.mode = "t" /\ pin.input_layer # None
    /\ Applied(pout) = <<"transfer", "diffract", "transfer", "transfer">>

\* the matrices that the diffraction steps applied, first to last
RECURSIVE AppliedMatrices(_)
AppliedMatrices(a) ==
    IF a = FieldEntry THEN <<>>
    ELSE IF a[1] = "dotmdmf" THEN AppliedMatrices(a[5])
    ELSE IF a[1] = "diffract" THEN Append(AppliedMatrices(a[3]), a[2])
    ELSE <<>>

\* the Fresnel matrix of the call's input layer
Fresnel == jones_transmission_matrix(pin.input_layer, <<"eff", 1>>)

\* matrix mat is the Fresnel matrix or a product that holds it
HoldsFresnel(mat) ==
    \/ mat = Fresnel
    \/ mat[1] = "dotmm" /\ mat[3] = Fresnel

\* the diffraction step of sub-step 0 is the first operation for a positive
\* thickness and the second, after the transfer, otherwise
FirstDiffractIsStepZero ==
    IF pin.thickness > 0
    THEN Applied(pout)[1] = "diffract"
    ELSE Applied(pout)[1] = "transfer" /\ Applied(pout)[2] = "diffract"

(* C21: in a call with an input layer the Fresnel matrix built from it is  *)
(* part of the matrix applied in sub-step 0, alone or multiplied into the  *)
(* diffraction matrix, and of no matrix applied in a later sub-step, for   *)
(* every number of sub-steps and with diffraction on or off.               *)
C21_FresnelOnce ==
    pc = "returned" /\ pin.input_layer # None =>
        LET mats == AppliedMatrices(pout)
        IN  /\ \A k \in 2..Len(mats) : ~HoldsFresnel(mats[k])
            /\ pin.mode = "t" =>
                  /\ Len(mats) >= 1
                  /\ HoldsFresnel(mats[1])
                  /\ FirstDiffractIsStepZero
                  /\ mats[1] = (IF pin.diffraction
                                THEN Dotmm(corrected_jones_diffraction_matrix(1,
                                               pin.thickness_eff, pin.nsteps), Fresnel)
                                ELSE Fresnel)
            /\ pin.mode # "t" => \A k \in 1..Len(mats) : ~HoldsFresnel(mats[k])

C21_Witness ==
    /\ pc = "returned"
    /\ pin.input_layer # None /\ pin.mode = "t" /\ pin.diffraction
    /\ pin.nsteps = 3
    /\ Len(AppliedMatrices(pout)) = 3
    /\ HoldsFresnel(AppliedMatrices(pout)[1])
    /\ ~HoldsFresnel(AppliedMatrices(pout)[3])

-----------------------------------------------------------------------------
(* Further properties of _transfer_field, specification Spec               *)

(* C22: the layer propagator receives an input layer only for the first    *)
(* layer of the stack; for every later layer of the pass it is called      *)
(* with no input layer.                                                    *)
C22_FirstLayerOnly ==
    call.method = "effective" =>
        \A k \in 1..Len(log) :
            log[k].input_layer # None => (k - 1) % NLayers = 0

\* the step that ends pass i of a call with npass > 1
EndsForwardPass == pc = "endpass" /\ call.npass > 1 /\ i % 2 = 0
EndsBackwardPass == pc = "endpass" /\ call.npass > 1 /\ i % 2 = 1

\* term a is the projection of f to its transmitted part in the output
\* medium with the normalization of the call
IsProjectionOf(a, f) ==
    /\ a[1] = "transmitted"
    /\ a[2] = call.nout
    /\ a[3] = norm
    /\ a[5] = f

-----------------------------------------------------------------------------
(* transfer.py lines 528-541: the end of a backward pass that is not the   *)
(* final pass, on one field in exact arithmetic.  field is the working     *)
(* field at the end of the pass and field0 the field the caller passed in. *)

\* np.multiply(a, fact) and np.subtract(a, b) on fields
multiply(a, fact) ==
    AsArray4([c \in Comps |-> AsArray2([px \in Pixels |-> RMul(a[c][px], fact)])])

subtract(a, b) ==
    AsArray4([c \in Comps |-> AsArray2([px \in Pixels |-> RSub(a[c][px], b[c][px])])])

\* line 533: fact = i0/i0f
rescale_factor(i0v, i0f) == RDiv(i0v, i0f)

\* the value of a one-element set: each intermediate array below is bound
\* once, as np computes it once
TheOne(S) == CHOOSE x \in S : TRUE

\* lines 535-539: the arrays multiplied by fact, the residual, the new field_in
rescaled_fields(f, f0, ft, i0v, i0f, fact) ==
    TheOne({ TheOne({ [finite |-> TRUE, i0 |-> i0v, i0f |-> i0f, fact |-> fact,
                       scaled |-> scaled, field |-> fld,
                       field_in |-> FieldAdd(multiply(f, fact), fld)]
                      : fld \in {subtract(f0, scaled)} })
             : scaled \in {multiply(ft, fact)} })

\* lines 528-541.  A zero i0f makes fact infinite or NaN and every array it
\* multiplies non-finite.
backward_pass_end(f, f0, betas, n, betamax) ==
    TheOne({ TheOne({ IF i0f = RZero
                      THEN [finite |-> FALSE, i0 |-> i0v, i0f |-> i0f, fact |-> NaN,
                            scaled |-> None, field |-> None, field_in |-> None]
                      ELSE TheOne({ rescaled_fields(f, f0, ft, i0v, i0f, fact)
                                    : fact \in {rescale_factor(i0v, i0f)} })
                      : i0f \in {total_intensity(ft)} })
             : ft \in {transmitted_field(f, betas, n, betamax, "None", None)},
               i0v \in {total_intensity(
                            transmitted_field(f0, betas, n, betamax, "None", None))} })

RescaleFields ==
    {FieldOf(<<1, 1, 0, 0>>, <<2, 1, 1, 0>>), FieldOf(<<1, -1, 0, 0>>, <<0, 0, 1, 2>>),
     FieldOf(<<2, 1, 1, 0>>, <<2, 1, 1, 0>>), FieldOf(<<1, 1, 0, 0>>, <<0, 0, 0, 0>>),
     FieldOf(<<0, 0, 1, 2>>, <<0, 0, 1, 2>>), FieldOf(<<0, 0, 0, 0>>, <<0, 0, 0, 0>>)}

InitRescale ==
    /\ Idle
    /\ pc = "call"
    /\ pin \in [wave : {w \in Waves : w[1] <= 5 /\ w[2] = 0}, betamax : BetaMaxs,
                field : RescaleFields, field0 : RescaleFields]
    /\ pout = None

BackwardPassEnd ==
    /\ pc = "call"
    /\ pout' = backward_pass_end(pin.field, pin.field0, betaphi(pin.wave[2]),
                                 pin.wave[1], pin.betamax)
    /\ pc' = "returned"
    /\ UNCHANGED <<pin, ivars>>

NextRescale == BackwardPassEnd

SpecRescale == InitRescale /\ [][NextRescale]_vars

\* the transmitted part of the caller's array after the step
TransmittedPartOfFieldIn ==
    transmitted_field(pout.field_in, betaphi(pin.wave[2]), pin.wave[1],
                      pin.betamax, "None", None)

(* C24: at the end of a backward pass that is not the final pass the       *)
(* residual field has become field_in, rescaled so that the total          *)
(* intensity of its transmitted part equals the reference intensity i0     *)
(* recorded at the start of the call, also when the transmitted intensity  *)
(* of the pass is zero.                                                    *)
C24_RescaledToReference ==
    pc = "returned" =>
        /\ pout.finite
        /\ total_intensity(TransmittedPartOfFieldIn) = pout.i0

\* the rescaled transmitted part of the residual field alone has the
\* intensity i0
C24_ScaledResidual ==
    pc = "returned" /\ pout.finite => total_intensity(pout.scaled) = pout.i0

\* whenever the transmitted intensity of the pass is not zero, the
\* transmitted part of the new field_in has the intensity i0
C24_NonZeroCase ==
    pc = "returned" /\ pout.finite =>
        total_intensity(TransmittedPartOfFieldIn) = pout.i0

-----------------------------------------------------------------------------
(* The betamax cutoff of diffraction_alphaffi and of propagate_field_full, *)
(* on a grid whose two frequency bins have beta 0 and beta1                *)

\* betamax given as a pair (b1, betamax) instead of a scalar
IsPair(betamax) == "b1" \in DOMAIN betamax

\* diffract.py lines 74-84: the try block unpacks betamax; with a scalar the
\* unpacking raises, the bare except passes and f is not multiplied by the
\* Tukey window
taper_applied(betamax) == IsPair(betamax)

\* transfer.py line 659: mask = b < betamax; the loop of lines 668-690 adds
\* the eigenwaves of the bins in the mask only
full_mask(betas, betamax) ==
    {px \in Pixels : betamax.inf \/ betas[px] < betamax.v}

CutoffBetaMaxs ==
    {Infinity}
    \cup {[inf |-> FALSE, v |-> b] : b \in {1, 3, 4, 5, 12, 13}}
    \cup {[inf |-> FALSE, v |-> 13, b1 |-> b] : b \in {4, 12}}

InitCutoff ==
    /\ Idle
    /\ pc = "call"
    /\ pin \in [wave : Waves, betamax : CutoffBetaMaxs]
    /\ pout = [e |-> None, taper |-> None, summed |-> None]

BuilderBins ==
    /\ pc \in {"call", "full"}
    /\ pout' = [pout EXCEPT
                  !.e = diffraction_alphaffi(betaphi(pin.wave[2]), pin.wave[1],
                                             pin.betamax),
                  !.taper = taper_applied(pin.betamax)]
    /\ pc' = (IF pc = "call" THEN "builder" ELSE "returned")
    /\ UNCHANGED <<pin, ivars>>

FullBins ==
    /\ pc \in {"call", "builder"}
    /\ ~IsPair(pin.betamax)
    /\ pout' = [pout EXCEPT !.summed = full_mask(betaphi(pin.wave[2]), pin.betamax)]
    /\ pc' = (IF pc = "call" THEN "full" ELSE "returned")
    /\ UNCHANGED <<pin, ivars>>

NextCutoff == BuilderBins \/ FullBins

SpecCutoff == InitCutoff /\ [][NextCutoff]_vars

BuilderDone == pc \in {"builder", "returned"}
FullDone == pc \in {"full", "returned"}

\* the claim's criterion: the mode of bin px is retained
Retained(px) ==
    pin.betamax.inf \/ betaphi(pin.wave[2])[px] < pin.betamax.v

(* C25: with a scalar betamax a mode is retained iff beta < betamax: the   *)
(* builder zeroes alpha, f and fi of every bin with beta >= betamax and    *)
(* leaves the others as computed, with no taper; the full propagator sums  *)
(* over exactly the bins with beta < betamax.                              *)
C25_HardCutoff ==
    ~IsPair(pin.betamax) =>
        /\ BuilderDone =>
              /\ pout.taper = FALSE
              /\ \A px \in Pixels :
                    IF Retained(px)
                    THEN pout.e[px] = alphaffi(betaphi(pin.wave[2])[px], pin.wave[1])
                    ELSE /\ pout.e[px].alpha = Zero4
                         /\ pout.e[px].f = Zero44
                         /\ pout.e[px].fi = Zero44
        /\ FullDone =>
              pout.summed = {px \in Pixels : Retained(px)}

C25_Witness ==
    /\ pc = "returned"
    /\ ~pin.betamax.inf /\ ~IsPair(pin.betamax)
    /\ pin.wave[2] = pin.betamax.v
    /\ pout.e[2].f = Zero44
    /\ pout.e[1].f # Zero44
    /\ pout.summed = {1}

-----------------------------------------------------------------------------
(* transfer.py: what propagate_field_effective returns with ret_affi=True  *)

\* lines 574-591: the eigen-decomposition of the layer and the phase
\* tensor p = phasem(alpha, kd, out = out_phase) of this call
layer_affi(j, m) == <<IF m = "t" THEN "alphajji_xy" ELSE "alphaffi_xy", j>>
layer_phase(j, m, thickness, nsteps) ==
    <<"phasem", layer_affi(j, m), thickness, nsteps>>

\* line 620: return (alpha, f, fi), out_phase, out.  out_phase is the
\* argument: the caller's buffer, which phasem has filled, or None.
propagate_field_effective_ret(a, j, thickness, nsteps, m, out_affi, out_phase) ==
    [affi |-> layer_affi(j, m),
     phase |-> IF out_phase = None THEN None
               ELSE layer_phase(j, m, thickness, nsteps),
     field |-> propagate_field_effective(a, j, thickness, thickness,
                   nsteps, TRUE, m, None)]

\* a buffer of the caller, holding values of an earlier call
Buffer == <<"buffer">>

InitRet ==
    /\ Idle
    /\ pc = "call"
    /\ pin \in [layer : 0..1, thickness : {-2, 0, 2}, nsteps : SubSteps,
                mode : {"t", "None"}, out_affi : {None, Buffer},
                out_phase : {None, Buffer}]
    /\ pout = None

RetAffiCall ==
    /\ pc = "call"
    /\ pout' = propagate_field_effective_ret(FieldEntry, pin.layer,
                   pin.thickness, pin.nsteps, pin.mode, pin.out_affi,
                   pin.out_phase)
    /\ pc' = "returned"
    /\ UNCHANGED <<pin, ivars>>

NextRet == RetAffiCall

SpecRet == InitRet /\ [][NextRet]_vars

(* C26: with ret_affi = True the call returns, with the updated field, the *)
(* eigen-decomposition (alpha, f, fi) and the phase tensor it computed for *)
(* the layer, also when the caller supplied no out_phase buffer.           *)
C26_ReturnsPhase ==
    pc = "returned" =>
        /\ pout.affi = layer_affi(pin.layer, pin.mode)
        /\ pout.phase = layer_phase(pin.layer, pin.mode, pin.thickness, pin.nsteps)
        /\ pout.field # FieldEntry

\* with a buffer supplied, the returned phase is the one of this call
C26_WithBuffer ==
    (pc = "returned" /\ pin.out_phase # None) =>
        /\ pout.affi = layer_affi(pin.layer, pin.mode)
        /\ pout.phase = layer_phase(pin.layer, pin.mode, pin.thickness, pin.nsteps)
        /\ pout.field # FieldEntry

-----------------------------------------------------------------------------
(* linalg.py: the per-pixel kernels _dotm1f, _dotmf and _transmit run as   *)
(* parallel loops.  prange splits the rows i among threads, each thread    *)
(* runs the loop over j; one thread per row gives every schedule that a    *)
(* coarser split can give.  Array elements are symbolic terms; pout holds  *)
(* the field buffer, the output buffer and each thread's position.         *)

ParRows == 1..2
ParCols == 1..2
PixelKernels == {"_dotm1f", "_dotmf", "_transmit"}

\* element [k, i, j] of the field on entry, and of a separate out buffer
FieldAt(k, r, c) == <<"f", k, r, c>>
StaleAt(k, r, c) == <<"o", k, r, c>>

\* a[..., k, 0] * v0 + a[..., k, 1] * v1 + a[..., k, 2] * v2 + a[..., k, 3] * v3
RowTimes(name, r, c, k, v) == <<"row", name, r, c, k, v>>

\* the value the kernel stores in out[k, i, j] from the four values v
kernel_out(kernel, k, r, c, v) ==
    CASE kernel = "_dotm1f" -> RowTimes("a", 0, 0, k, v)
      [] kernel = "_dotmf" -> RowTimes("a", r, c, k, v)
      [] kernel = "_transmit" ->
            RowTimes("a", r, c, k,
                <<<<"mul", RowTimes("b", r, c, 1, v), <<"exp", r, c, 1>>>>,
                  <<"mul", RowTimes("b", r, c, 2, v), <<"exp", r, c, 2>>>>,
                  <<"mul", RowTimes("b", r, c, 3, v), <<"exp", r, c, 3>>>>,
                  <<"mul", RowTimes("b", r, c, 4, v), <<"exp", r, c, 4>>>>>>)

\* an operand of the output expressions read again from the array
operand_reread(loc, mem, k, r, c) == mem[<<k, r, c>>]

\* an operand of the output expressions: the local b0..b3 (f0..f3) read at
\* the top of the iteration
operand(loc, mem, k, r, c) == loc[k]

NoLocals == <<None, None, None, None>>

\* a thread has finished its row when j has passed the last column
Finished(th) == th.j > pin.cols

ParThreads == 1..pin.rows

\* the buffer the kernel writes: the field itself when called in place
Target(st) == IF pin.inplace THEN st.fieldv ELSE st.out

InitPar ==
    /\ Idle
    /\ pc = "call"
    /\ pin \in [kernel : PixelKernels, inplace : BOOLEAN,
                rows : ParRows, cols : ParCols]
    /\ pout = [fieldv |-> [e \in Comps \X (1..pin.rows) \X (1..pin.cols) |->
                              FieldAt(e[1], e[2], e[3])],
               out |-> [e \in Comps \X (1..pin.rows) \X (1..pin.cols) |->
                              StaleAt(e[1], e[2], e[3])],
               th |-> [t \in 1..pin.rows |-> [j |-> 1, ip |-> 0, loc |-> NoLocals]],
               overlapped |-> FALSE]

\* another thread is in the middle of its row
Overlaps(t) ==
    \E u \in ParThreads \ {t} :
        /\ ~Finished(pout.th[u])
        /\ pout.th[u].j > 1 \/ pout.th[u].ip > 0

\* b0 = b[0,i,j] ... b3 = b[3,i,j]: one read of the thread of row t
ReadStep(t) ==
    LET th == pout.th[t]
        k == th.ip + 1
    IN /\ pc = "call"
       /\ ~Finished(th)
       /\ th.ip < 4
       /\ pout' = [pout EXCEPT
              !.th[t].loc[k] = pout.fieldv[<<k, t, th.j>>],
              !.th[t].ip = th.ip + 1,
              !.overlapped = @ \/ Overlaps(t)]
       /\ UNCHANGED <<pc, pin, ivars>>

\* out[0,i,j] = ... out[3,i,j] = ...: one write of the thread of row t;
\* after the fourth the thread moves to the next j
WriteStep(t) ==
    LET th == pout.th[t]
        k == th.ip - 3
        mem == pout.fieldv
        v == <<operand(th.loc, mem, 1, t, th.j), operand(th.loc, mem, 2, t, th.j),
               operand(th.loc, mem, 3, t, th.j), operand(th.loc, mem, 4, t, th.j)>>
        val == kernel_out(pin.kernel, k, t, th.j, v)
        moved == IF th.ip = 7
                 THEN [j |-> th.j + 1, ip |-> 0, loc |-> NoLocals]
                 ELSE [th EXCEPT !.ip = th.ip + 1]
    IN /\ pc = "call"
       /\ ~Finished(th)
       /\ th.ip >= 4
       /\ pout' = IF pin.inplace
                  THEN [pout EXCEPT !.fieldv[<<k, t, th.j>>] = val,
                                    !.th[t] = moved,
                                    !.overlapped = @ \/ Overlaps(t)]
                  ELSE [pout EXCEPT !.out[<<k, t, th.j>>] = val,
                                    !.th[t] = moved,
                                    !.overlapped = @ \/ Overlaps(t)]
       /\ UNCHANGED <<pc, pin, ivars>>

\* the parallel loop ends when every thread has finished
Join ==
    /\ pc = "call"
    /\ \A t \in ParThreads : Finished(pout.th[t])
    /\ pc' = "returned"
    /\ UNCHANGED <<pin, pout, ivars>>

NextPar ==
    \/ \E t \in ParThreads : ReadStep(t)
    \/ \E t \in ParThreads : WriteStep(t)
    \/ Join

SpecPar == InitPar /\ [][NextPar]_vars

\* sequential execution with a separate output buffer
Sequential(k, r, c) ==
    kernel_out(pin.kernel, k, r, c,
        <<FieldAt(1, r, c), FieldAt(2, r, c), FieldAt(3, r, c), FieldAt(4, r, c)>>)

(* C27: the iteration of pixel (i, j) reads only the field elements at     *)
(* (i, j), all four before it writes any output, and writes only the       *)
(* output elements at (i, j); so every interleaving of the parallel        *)
(* iterations, also when out is the input field, ends with the result of   *)
(* sequential execution into a separate output buffer.                     *)
C27_InterleavingFree ==
    /\ \A t \in ParThreads :
          (~Finished(pout.th[t]) /\ pout.th[t].ip >= 4) =>
              \A k \in Comps : pout.th[t].loc[k] = FieldAt(k, t, pout.th[t].j)
    /\ \A e \in DOMAIN pout.fieldv :
          Target(pout)[e] # (IF pin.inplace THEN FieldAt(e[1], e[2], e[3])
                             ELSE StaleAt(e[1], e[2], e[3])) =>
              /\ Target(pout)[e] = Sequential(e[1], e[2], e[3])
              /\ \/ Finished(pout.th[e[2]])
                 \/ pout.th[e[2]].j > e[3]
                 \/ pout.th[e[2]].j = e[3] /\ pout.th[e[2]].ip - 3 > e[1]
    /\ pc = "returned" =>
          \A e \in DOMAIN pout.fieldv :
              /\ Target(pout)[e] = Sequential(e[1], e[2], e[3])
              /\ ~pin.inplace => pout.fieldv[e] = FieldAt(e[1], e[2], e[3])

C27_Witness ==
    /\ pc = "returned"
    /\ pin.inplace /\ pin.rows = 2 /\ pin.cols = 2
    /\ pin.kernel = "_transmit"
    /\ pout.overlapped
    /\ pout.fieldv[<<4, 2, 2>>] = Sequential(4, 2, 2)

-----------------------------------------------------------------------------
(* The set-up and the failure paths of _transfer_field, specification Spec *)

\* the state in which the set-up has just finished
SetupDone == pc = "pass" /\ i = 0

(* C28: the projection of the working field on its forward part before the *)
(* first pass is executed exactly when interference is off (mode "t"); the *)
(* integer norm has been replaced by a string before the test, so with     *)
(* interference on it is never executed, for any norm, 2 included.         *)
C28_FirstProjection ==
    SetupDone =>
        /\ field = Transmitted(field0, call.nin, None, None) <=> interference = FALSE
        /\ interference = FALSE <=> mode = "t"
        /\ interference = TRUE => field = field0
        /\ field0 = FieldEntry

C28_Witness ==
    /\ SetupDone
    /\ call.norm = 2
    /\ interference = TRUE
    /\ field = FieldEntry

\* the step that ends a pass applied no exit Fresnel matrix to the field
ExitSkipped ==
    IF call.npass = 1 THEN field' = field
    ELSE IF i % 2 = 0
         THEN field_out' = Add(field_out,
                  forward_pass_field(field, i = call.npass - 1, call.nout, norm, ref'))
         ELSE backfield'.value = field

(* C29: input_layer is not None only if the effective interference flag is *)
(* false and reflections is true; the entry and exit Fresnel matrices are  *)
(* applied only in mode "t" with npass == 1; with npass > 1 input_layer is *)
(* None in every pass and the exit transmit_jones is never executed.       *)
C29_FresnelOnlySinglePass ==
    /\ [](/\ input_layer # None =>
                /\ interference = FALSE /\ reflections = TRUE
                /\ mode = "t" /\ call.npass = 1
          /\ \A k \in 1..Len(log) :
                log[k].input_layer # None => (mode = "t" /\ call.npass = 1)
          /\ call.npass > 1 => input_layer = None)
    /\ [][(pc = "endpass" /\ pc' = "pass" /\ (call.npass > 1 \/ mode # "t"))
              => ExitSkipped]_vars

C29_Witness ==
    /\ pc = "done"
    /\ call.npass > 1
    /\ call.reflections = TRUE /\ call.interference = FALSE
    /\ call.method = "effective"
    /\ input_layer = None
    /\ \A k \in 1..Len(log) : log[k].input_layer = None

(* C30: when a transfer_field call ends with an exception, raised at any   *)
(* point, the layer propagation included, the caller's input field array   *)
(* holds the values it had on entry.                                       *)
C30_InputPreserved ==
    pc = "error" => field_in = FieldEntry

\* an exception raised by the validation leaves the input field untouched
C30_ValidationErrors ==
    (pc = "error" /\ exc # "IndexError") => field_in = FieldEntry

====
